---- MODULE Spec2Model ----
(***************************************************************************)
(* CHIP-8 interpreter of chip-8-rs.  The repository holds two interpreters *)
(* of the same instruction set:                                            *)
(*   - Chip8 (src/src/chip_8.rs), the renderer-agnostic core behind the    *)
(*     Chip8Variant trait: Vec call stack, draw queue, key latch;          *)
(*   - App (src/src/app.rs), the monolithic winit application: call stack  *)
(*     kept in emulated memory through sp, pixels drawn directly into the  *)
(*     frame buffer, KeyWaitState latch.                                   *)
(* Each machine is one record-valued variable whose fields carry the names *)
(* of the struct fields.  A panic (unwrap on None, slice out of range,     *)
(* arithmetic overflow in a build with overflow checks) sets `panicked`.   *)
(***************************************************************************)
EXTENDS Integers, Sequences, FiniteSets, TLC

VARIABLES
    chip8,            \* the Chip8 struct (chip_8.rs:33-48) plus `panicked`
    app,              \* the App struct (app.rs:42-58) plus `panicked`
    overflow_checks,  \* build setting: TRUE = debug (overflow panics), FALSE = release (wraps)
    produced,         \* history: draw jobs enqueued by executed 00E0 / Dxyn, in order
    returned,         \* history: draw jobs handed out by poll_draw_queue, in order
    key_log,          \* history: key events delivered to Chip8 since its key-wait began
    app_log,          \* history: polls and key events seen by App since its key-wait began
    app_wait,         \* history: [pc, x, vx] at the poll that started App's key-wait
    app_draws,        \* history: the last two of App's draws executed back to back
    fresh,            \* history: TRUE until the first call made on the constructed machines
    await_x           \* history: the x of the Fx0A that began the core's latest key-wait

vars ==
    <<chip8, app, overflow_checks, produced, returned, key_log, app_log, app_wait, app_draws,
      fresh, await_x>>

---------------------------------------------------------------------------
(* Program constants *)

MEMORY_LENGTH == 4096
ENTRY == 512
MLEN == 4096
START == 512
WIDTH == 64
HEIGHT == 32

FONT ==
    << 240, 144, 144, 144, 240,
        32,  96,  32,  32, 112,
       240,  16, 240, 128, 240,
       240,  16, 240,  16, 240,
       144, 144, 240,  16,  16,
       240, 128, 240,  16, 240,
       240, 128, 240, 144, 240,
       240,  16,  32,  64,  64,
       240, 144, 240, 144, 240,
       240, 144, 240,  16, 240,
       240, 144, 240, 144, 144,
       224, 144, 224, 144, 224,
       240, 128, 128, 128, 240,
       224, 144, 144, 144, 224,
       240, 128, 240, 128, 240,
       240, 128, 240, 128, 128 >>

---------------------------------------------------------------------------
(* Machine integers and Option *)

None == <<>>
Some(v) == <<v>>

Bit(v, i) == (v \div (2 ^ i)) % 2

BitAnd(a, b) ==
    LET s[i \in 0..16] == IF i = 16 THEN 0 ELSE Bit(a, i) * Bit(b, i) * (2 ^ i) + s[i + 1]
    IN  s[0]

BitOr(a, b) ==
    LET s[i \in 0..16] ==
            IF i = 16 THEN 0
            ELSE (IF Bit(a, i) + Bit(b, i) > 0 THEN 2 ^ i ELSE 0) + s[i + 1]
    IN  s[0]

BitXor(a, b) ==
    LET s[i \in 0..16] ==
            IF i = 16 THEN 0
            ELSE ((Bit(a, i) + Bit(b, i)) % 2) * (2 ^ i) + s[i + 1]
    IN  s[0]

\* u8::wrapping_add, and the (result, carry) pair of u8::overflowing_add
wrapping_add(a, b) == (a + b) % 256
overflowing_add(a, b) == <<(a + b) % 256, a + b > 255>>
\* the (result, borrow) pair of u8::overflowing_sub
overflowing_sub(a, b) == <<(a - b + 256) % 256, a < b>>
wrapping_shr(a, n) == a \div (2 ^ n)
wrapping_shl(a, n) == (a * (2 ^ n)) % 256
saturating_sub(a, b) == IF a < b THEN 0 ELSE a - b

\* ElementState::is_pressed
is_pressed(state) == state = "Pressed"

\* The KeyCode -> logical key table shared by Chip8::handle_input and
\* App::window_event; every other key code maps to None.
KeyOf(key_code) ==
    CASE key_code = "KeyX"   -> Some(0)
      [] key_code = "Digit1" -> Some(1)
      [] key_code = "Digit2" -> Some(2)
      [] key_code = "Digit3" -> Some(3)
      [] key_code = "KeyQ"   -> Some(4)
      [] key_code = "KeyW"   -> Some(5)
      [] key_code = "KeyE"   -> Some(6)
      [] key_code = "KeyA"   -> Some(7)
      [] key_code = "KeyS"   -> Some(8)
      [] key_code = "KeyD"   -> Some(9)
      [] key_code = "KeyZ"   -> Some(10)
      [] key_code = "KeyC"   -> Some(11)
      [] key_code = "Digit4" -> Some(12)
      [] key_code = "KeyR"   -> Some(13)
      [] key_code = "KeyF"   -> Some(14)
      [] key_code = "KeyV"   -> Some(15)
      [] OTHER               -> None

\* InstructionDecode::decode
InstructionDecode(instruction) ==
    [ opcode    |-> instruction \div 4096,
      x         |-> (instruction \div 256) % 16,
      y         |-> (instruction \div 16) % 16,
      funct     |-> instruction % 16,
      immediate |-> instruction % 256,
      address   |-> instruction % 4096 ]

\* The loader without the font: the image from the entry point, zero elsewhere.
LoadedByte_no_font(image, a) ==
    IF a = 511 THEN 0
    ELSE IF a >= ENTRY /\ a - ENTRY < Len(image) THEN image[a - ENTRY + 1]
    ELSE 0

\* The byte at address a right after the loader ran on a program image (a
\* sequence of bytes): font at 0, image from the entry point (as much as
\* fits), byte 0x1FF zeroed, zero elsewhere.
LoadedByte(image, a) ==
    IF a < 80 THEN FONT[a + 1]
    ELSE IF a = 511 THEN 0
    ELSE IF a >= ENTRY /\ a - ENTRY < Len(image) THEN image[a - ENTRY + 1]
    ELSE 0

\* The 4096-byte memory array.  It is held as the loaded image together with
\* the bytes that differ from their loaded value (`written`), so that two
\* memories are equal exactly when all 4096 bytes agree: MemRead is the array
\* read memory[a], MemWrite the array write memory[a] = v.
LoadMemory(image) == [image |-> image, written |-> <<>>]

MemRead(memory, a) ==
    IF a \in DOMAIN memory.written THEN memory.written[a] ELSE LoadedByte(memory.image, a)

MemWrite(memory, a, v) ==
    LET keep == DOMAIN memory.written \ {a}
        dom  == IF v = LoadedByte(memory.image, a) THEN keep ELSE keep \cup {a}
    IN  [memory EXCEPT !.written = [b \in dom |-> IF b = a THEN v ELSE memory.written[b]]]

\* memory[at .. at + Len(bytes)].copy_from_slice(bytes)
RECURSIVE MemCopy(_, _, _)
MemCopy(memory, at, bytes) ==
    IF bytes = <<>> THEN memory
    ELSE MemCopy(MemWrite(memory, at, Head(bytes)), at + 1, Tail(bytes))

\* u16::from_be_bytes(memory[at .. at + 2])
ReadWord(memory, at) == MemRead(memory, at) * 256 + MemRead(memory, at + 1)

\* memory[from .. from + n).to_vec()
Slice(memory, from, n) == [k \in 1..n |-> MemRead(memory, from + k - 1)]

---------------------------------------------------------------------------
(* Draw jobs (draw_job.rs) *)

Clear == [kind |-> "Clear"]
Draw(sprite) == [kind |-> "Draw", sprite |-> sprite]
Sprite(v_x, v_y, buf) == [v_x |-> v_x, v_y |-> v_y, buf |-> buf]

---------------------------------------------------------------------------
(* Chip8, the core interpreter (chip_8.rs) *)

\* Chip8::new: the state after construction from a program image.
\* video_memory is never read or written after construction and is left out.
Chip8_new(image) ==
    [ draw_queue    |-> <<>>,
      stack         |-> <<>>,
      register_file |-> [r \in 0..15 |-> 0],
      ir            |-> 0,
      pc            |-> ENTRY,
      indirect      |-> 0,
      delay_timer   |-> 0,
      sound_timer   |-> 0,
      memory        |-> LoadMemory(image),
      keyboard      |-> [k \in 0..15 |-> "Released"],
      key_latch     |-> None,
      awaiting_key  |-> FALSE,
      instr         |-> InstructionDecode(0),
      panicked      |-> FALSE ]

\* A Rust panic: the run aborts with the state as it was at that point.
Chip8_panic(c) == [c EXCEPT !.panicked = TRUE]

\* fetch that advances PC by one byte instead of one word.
Chip8_fetch_one_byte(c) ==
    IF c.pc + 2 > MEMORY_LENGTH
    THEN Chip8_panic(c)
    ELSE [c EXCEPT !.ir = ReadWord(c.memory, c.pc), !.pc = c.pc + 1]

Chip8_fetch(c) ==
    IF c.pc + 2 > MEMORY_LENGTH
    THEN Chip8_panic(c)
    ELSE [c EXCEPT !.ir = ReadWord(c.memory, c.pc), !.pc = c.pc + 2]

Chip8_decode(c) == [c EXCEPT !.instr = InstructionDecode(c.ir)]

Chip8_clear_screen(c) == [c EXCEPT !.draw_queue = Append(c.draw_queue, Clear)]

Chip8_ret(c) ==
    IF c.stack = <<>>
    THEN Chip8_panic(c)
    ELSE [c EXCEPT !.pc = c.stack[Len(c.stack)],
                   !.stack = SubSeq(c.stack, 1, Len(c.stack) - 1)]

Chip8_jump(c, addr) == [c EXCEPT !.pc = addr]

Chip8_call(c, addr) == [c EXCEPT !.stack = Append(c.stack, c.pc), !.pc = addr]

Chip8_skip_vx_e_imm(c, x, imm) ==
    IF c.register_file[x] = imm THEN [c EXCEPT !.pc = c.pc + 2] ELSE c

Chip8_skip_vx_ne_imm(c, x, imm) ==
    IF c.register_file[x] # imm THEN [c EXCEPT !.pc = c.pc + 2] ELSE c

Chip8_skip_vx_e_vy(c, x, y) ==
    IF c.register_file[x] = c.register_file[y] THEN [c EXCEPT !.pc = c.pc + 2] ELSE c

Chip8_load_imm(c, x, imm) == [c EXCEPT !.register_file[x] = imm]

\* add_imm that reports the carry in the flag register, as add_reg does.
Chip8_add_imm_sets_carry(c, x, imm) ==
    LET r == overflowing_add(c.register_file[x], imm)
    IN  [c EXCEPT !.register_file =
            [[c.register_file EXCEPT ![x] = r[1]] EXCEPT ![15] = IF r[2] THEN 1 ELSE 0]]

Chip8_add_imm(c, x, imm) ==
    [c EXCEPT !.register_file[x] = wrapping_add(c.register_file[x], imm)]

\* or_reg that leaves the flag register as it was.
Chip8_or_reg_keeps_flag(c, x, y) ==
    [c EXCEPT !.register_file[x] = BitOr(c.register_file[x], c.register_file[y])]

\* The flag write comes second: with x = 0xF it overwrites the result.
Chip8_or_reg(c, x, y) ==
    [c EXCEPT !.register_file =
        [[c.register_file EXCEPT ![x] = BitOr(c.register_file[x], c.register_file[y])]
            EXCEPT ![15] = 0]]

Chip8_and_reg(c, x, y) ==
    [c EXCEPT !.register_file =
        [[c.register_file EXCEPT ![x] = BitAnd(c.register_file[x], c.register_file[y])]
            EXCEPT ![15] = 0]]

Chip8_xor_reg(c, x, y) ==
    [c EXCEPT !.register_file =
        [[c.register_file EXCEPT ![x] = BitXor(c.register_file[x], c.register_file[y])]
            EXCEPT ![15] = 0]]

Chip8_add_reg(c, x, y) ==
    LET r == overflowing_add(c.register_file[x], c.register_file[y])
    IN  [c EXCEPT !.register_file =
            [[c.register_file EXCEPT ![x] = r[1]] EXCEPT ![15] = IF r[2] THEN 1 ELSE 0]]

\* sub_reg with the flag set on borrow instead of on no borrow.
Chip8_sub_reg_flags_borrow(c, x, y) ==
    LET r == overflowing_sub(c.register_file[x], c.register_file[y])
    IN  [c EXCEPT !.register_file =
            [[c.register_file EXCEPT ![x] = r[1]] EXCEPT ![15] = IF r[2] THEN 1 ELSE 0]]

Chip8_sub_reg(c, x, y) ==
    LET r == overflowing_sub(c.register_file[x], c.register_file[y])
    IN  [c EXCEPT !.register_file =
            [[c.register_file EXCEPT ![x] = r[1]] EXCEPT ![15] = IF r[2] THEN 0 ELSE 1]]

\* shr_reg that shifts Vx in place and ignores Vy.
Chip8_shr_reg_in_place(c, x, y) ==
    LET v_x == c.register_file[x]
    IN  [c EXCEPT !.register_file =
            [[c.register_file EXCEPT ![x] = wrapping_shr(v_x, 1)] EXCEPT ![15] = v_x % 2]]

Chip8_shr_reg(c, x, y) ==
    LET v_y == c.register_file[y]
    IN  [c EXCEPT !.register_file =
            [[c.register_file EXCEPT ![x] = wrapping_shr(v_y, 1)] EXCEPT ![15] = v_y % 2]]

Chip8_subn_reg(c, x, y) ==
    LET r == overflowing_sub(c.register_file[y], c.register_file[x])
    IN  [c EXCEPT !.register_file =
            [[c.register_file EXCEPT ![x] = r[1]] EXCEPT ![15] = IF r[2] THEN 0 ELSE 1]]

Chip8_shl_reg(c, x, y) ==
    LET v_y == c.register_file[y]
    IN  [c EXCEPT !.register_file =
            [[c.register_file EXCEPT ![x] = wrapping_shl(v_y, 1)] EXCEPT ![15] = v_y \div 128]]

Chip8_load_addr(c, addr) == [c EXCEPT !.indirect = addr]

Chip8_skip_vx_ne_vy(c, x, y) ==
    IF c.register_file[x] # c.register_file[y] THEN [c EXCEPT !.pc = c.pc + 2] ELSE c

\* draw_sprite that also clears the flag register, as if the core decided
\* the collision itself.
Chip8_draw_sprite_writes_flag(c, x, y, n) ==
    IF c.indirect + n > MEMORY_LENGTH
    THEN Chip8_panic(c)
    ELSE LET job == Draw(Sprite(c.register_file[x], c.register_file[y],
                                Slice(c.memory, c.indirect, n)))
         IN  [c EXCEPT !.draw_queue = Append(c.draw_queue, job), !.register_file[15] = 0]

\* The sprite carries the register values as they are; the slice panics when
\* it runs past the end of memory.
Chip8_draw_sprite(c, x, y, n) ==
    IF c.indirect + n > MEMORY_LENGTH
    THEN Chip8_panic(c)
    ELSE LET buf == Slice(c.memory, c.indirect, n)
             v_x == c.register_file[x]
             v_y == c.register_file[y]
             job == Draw(Sprite(v_x, v_y, buf))
         IN  [c EXCEPT !.draw_queue = Append(c.draw_queue, job)]

Chip8_skip_pressed(c, x) ==
    IF is_pressed(c.keyboard[c.register_file[x] % 16]) THEN [c EXCEPT !.pc = c.pc + 2] ELSE c

Chip8_skip_not_pressed(c, x) ==
    IF ~is_pressed(c.keyboard[c.register_file[x] % 16]) THEN [c EXCEPT !.pc = c.pc + 2] ELSE c

\* The register operand is unused and the program counter is left alone.
Chip8_get_key(c, x) == [c EXCEPT !.awaiting_key = TRUE]

Chip8_load_sound_timer(c, x) == [c EXCEPT !.sound_timer = c.register_file[x]]

\* Reads the register through self.instr.x, which is the x it is called with.
Chip8_load_hex_sprite(c, x) == [c EXCEPT !.indirect = 5 * (c.register_file[c.instr.x] % 256)]

\* store_bcd with the digits least-significant first.
Chip8_store_bcd_ones_first(c, x) ==
    LET num == c.register_file[x]
    IN  IF c.indirect + 2 >= MEMORY_LENGTH
        THEN Chip8_panic(c)
        ELSE [c EXCEPT !.memory =
                MemWrite(MemWrite(MemWrite(c.memory,
                    c.indirect,     num % 10),
                    c.indirect + 1, (num \div 10) % 10),
                    c.indirect + 2, (num \div 100) % 10)]

\* store_bcd that writes hundreds, tens, ones in that order: the bytes in
\* range are written before the one out of range panics.
Chip8_store_bcd_ascending(c, x) ==
    LET num == c.register_file[x]
        m0  == c.memory
        m1  == MemWrite(m0, c.indirect, (num \div 100) % 10)
        m2  == MemWrite(m1, c.indirect + 1, (num \div 10) % 10)
        m3  == MemWrite(m2, c.indirect + 2, num % 10)
    IN  IF c.indirect >= MEMORY_LENGTH THEN Chip8_panic(c)
        ELSE IF c.indirect + 1 >= MEMORY_LENGTH THEN Chip8_panic([c EXCEPT !.memory = m1])
        ELSE IF c.indirect + 2 >= MEMORY_LENGTH THEN Chip8_panic([c EXCEPT !.memory = m2])
        ELSE [c EXCEPT !.memory = m3]

\* j runs 2, 1, 0: the first write is the one at indirect + 2, so an
\* out-of-range index panics before any byte is written.
Chip8_store_bcd(c, x) ==
    LET num == c.register_file[x]
    IN  IF c.indirect + 2 >= MEMORY_LENGTH
        THEN Chip8_panic(c)
        ELSE [c EXCEPT !.memory =
                MemWrite(MemWrite(MemWrite(c.memory,
                    c.indirect + 2, num % 10),
                    c.indirect + 1, (num \div 10) % 10),
                    c.indirect,     (num \div 100) % 10)]

\* store_block that leaves the index register where it was.
Chip8_store_block_keeps_index(c, x) ==
    IF c.indirect + x + 1 > MEMORY_LENGTH
    THEN Chip8_panic(c)
    ELSE [c EXCEPT !.memory = MemCopy(c.memory, c.indirect,
                                      [k \in 1..(x + 1) |-> c.register_file[k - 1]])]

Chip8_store_block(c, x) ==
    IF c.indirect + x + 1 > MEMORY_LENGTH
    THEN Chip8_panic(c)
    ELSE [c EXCEPT !.memory = MemCopy(c.memory, c.indirect,
                                      [k \in 1..(x + 1) |-> c.register_file[k - 1]]),
                   !.indirect = c.indirect + x + 1]

Chip8_load_block(c, x) ==
    IF c.indirect + x + 1 > MEMORY_LENGTH
    THEN Chip8_panic(c)
    ELSE [c EXCEPT !.register_file = [r \in 0..15 |->
                                        IF r <= x THEN MemRead(c.memory, c.indirect + r)
                                        ELSE c.register_file[r]],
                   !.indirect = c.indirect + x + 1]

\* self.indirect += Vx on a u16: past 0xFFFF the build decides (panic or wrap).
Chip8_add_indirect(c, x) ==
    LET s == c.indirect + c.register_file[x]
    IN  IF s <= 65535 THEN [c EXCEPT !.indirect = s]
        ELSE IF overflow_checks THEN Chip8_panic(c)
        ELSE [c EXCEPT !.indirect = s - 65536]

\* An instruction word no arm of the dispatch matches: aborts the run
\* instead of logging.
Chip8_unknown_aborts(c) == Chip8_panic(c)

\* An instruction word no arm of the dispatch matches: log::error! and
\* nothing else.
Chip8_unknown(c) == c

\* Chip8::execute; rnd is the byte random::<u8>() returns.  Unknown
\* instructions are logged and change nothing.
Chip8_execute(c, rnd) ==
    LET i == c.instr IN
    CASE i.opcode = 0 ->
            (CASE i.address = 224 -> Chip8_clear_screen(c)
               [] i.address = 238 -> Chip8_ret(c)
               [] OTHER -> Chip8_unknown(c))
      [] i.opcode = 1  -> Chip8_jump(c, i.address)
      [] i.opcode = 2  -> Chip8_call(c, i.address)
      [] i.opcode = 3  -> Chip8_skip_vx_e_imm(c, i.x, i.immediate)
      [] i.opcode = 4  -> Chip8_skip_vx_ne_imm(c, i.x, i.immediate)
      [] i.opcode = 5  -> Chip8_skip_vx_e_vy(c, i.x, i.y)
      [] i.opcode = 6  -> Chip8_load_imm(c, i.x, i.immediate)
      [] i.opcode = 7  -> Chip8_add_imm(c, i.x, i.immediate)
      [] i.opcode = 8  ->
            (CASE i.funct = 0  -> [c EXCEPT !.register_file[i.x] = c.register_file[i.y]]
               [] i.funct = 1  -> Chip8_or_reg(c, i.x, i.y)
               [] i.funct = 2  -> Chip8_and_reg(c, i.x, i.y)
               [] i.funct = 3  -> Chip8_xor_reg(c, i.x, i.y)
               [] i.funct = 4  -> Chip8_add_reg(c, i.x, i.y)
               [] i.funct = 5  -> Chip8_sub_reg(c, i.x, i.y)
               [] i.funct = 6  -> Chip8_shr_reg(c, i.x, i.y)
               [] i.funct = 7  -> Chip8_subn_reg(c, i.x, i.y)
               [] i.funct = 14 -> Chip8_shl_reg(c, i.x, i.y)
               [] OTHER -> Chip8_unknown(c))
      [] i.opcode = 9  -> Chip8_skip_vx_ne_vy(c, i.x, i.y)
      [] i.opcode = 10 -> Chip8_load_addr(c, i.address)
      [] i.opcode = 11 -> [c EXCEPT !.pc = i.address + c.register_file[0]]
      [] i.opcode = 12 -> [c EXCEPT !.register_file[i.x] = BitAnd(rnd, i.immediate)]
      [] i.opcode = 13 -> Chip8_draw_sprite(c, i.x, i.y, i.funct)
      [] i.opcode = 14 ->
            (CASE i.immediate = 158 -> Chip8_skip_pressed(c, i.x)
               [] i.immediate = 161 -> Chip8_skip_not_pressed(c, i.x)
               [] OTHER -> Chip8_unknown(c))
      [] i.opcode = 15 ->
            (CASE i.immediate = 7   -> [c EXCEPT !.register_file[i.x] = c.delay_timer]
               [] i.immediate = 10  -> Chip8_get_key(c, i.x)
               [] i.immediate = 21  -> [c EXCEPT !.delay_timer = c.register_file[i.x]]
               [] i.immediate = 24  -> Chip8_load_sound_timer(c, i.x)
               [] i.immediate = 30  -> Chip8_add_indirect(c, i.x)
               [] i.immediate = 41  -> Chip8_load_hex_sprite(c, i.x)
               [] i.immediate = 51  -> Chip8_store_bcd(c, i.x)
               [] i.immediate = 85  -> Chip8_store_block(c, i.x)
               [] i.immediate = 101 -> Chip8_load_block(c, i.x)
               [] OTHER -> Chip8_unknown(c))

\* Chip8Variant::instruction_cycle: fetch, decode, execute.
Chip8_instruction_cycle(c, rnd) ==
    LET f == Chip8_fetch(c)
    IN  IF f.panicked THEN f ELSE Chip8_execute(Chip8_decode(f), rnd)

\* decrement_timers with a wrapping subtraction: 0 becomes 255.
Chip8_decrement_timers_wrapping(c) ==
    [c EXCEPT !.delay_timer = (c.delay_timer + 255) % 256,
              !.sound_timer = (c.sound_timer + 255) % 256]

Chip8_decrement_timers(c) ==
    [c EXCEPT !.delay_timer = saturating_sub(c.delay_timer, 1),
              !.sound_timer = saturating_sub(c.sound_timer, 1)]

\* Chip8Variant::handle_input.  The element state is stored in the keyboard
\* but plays no part in the latch: the first event of any kind during a wait
\* latches its key, the next event of that key resolves the wait.
\* handle_input that latches the key of every event, waiting or not.
Chip8_handle_input_latches_idle(c, key_code, state) ==
    IF KeyOf(key_code) = None THEN c
    ELSE LET key == KeyOf(key_code)[1]
             k1  == [c EXCEPT !.keyboard[key] = state]
         IN  IF c.key_latch = None THEN [k1 EXCEPT !.key_latch = Some(key)]
             ELSE IF ~c.awaiting_key THEN k1
             ELSE IF c.key_latch[1] = key
                  THEN [k1 EXCEPT !.register_file[c.instr.x] = c.key_latch[1],
                                  !.awaiting_key = FALSE,
                                  !.key_latch = None]
                  ELSE k1

Chip8_handle_input(c, key_code, state) ==
    IF KeyOf(key_code) = None THEN c
    ELSE LET key == KeyOf(key_code)[1]
             k1  == [c EXCEPT !.keyboard[key] = state]
         IN  IF ~c.awaiting_key THEN k1
             ELSE IF c.key_latch = None THEN [k1 EXCEPT !.key_latch = Some(key)]
             ELSE IF c.key_latch[1] = key
                  THEN [k1 EXCEPT !.register_file[c.instr.x] = c.key_latch[1],
                                  !.awaiting_key = FALSE,
                                  !.key_latch = None]
                  ELSE k1

Chip8_sound_timer(c) == c.sound_timer

Chip8_waiting(c) == c.awaiting_key

\* poll_draw_queue taking the newest job (pop_back) instead of the oldest.
Chip8_poll_draw_queue_pop_back(c) ==
    IF c.draw_queue = <<>>
    THEN <<None, c>>
    ELSE <<Some(c.draw_queue[Len(c.draw_queue)]),
           [c EXCEPT !.draw_queue = SubSeq(c.draw_queue, 1, Len(c.draw_queue) - 1)]>>

\* Chip8Variant::poll_draw_queue: <<returned value, machine afterwards>>
Chip8_poll_draw_queue(c) ==
    IF c.draw_queue = <<>>
    THEN <<None, c>>
    ELSE <<Some(Head(c.draw_queue)), [c EXCEPT !.draw_queue = Tail(c.draw_queue)]>>

Chip8_set_collision(c, collides) ==
    [c EXCEPT !.register_file[15] = IF collides THEN 1 ELSE 0]

---------------------------------------------------------------------------
(* App, the monolithic interpreter (app.rs) *)

\* KeyWaitState
Idle == <<"Idle">>
Waiting == <<"Waiting">>
Pressed(key) == <<"Pressed", key>>
Released(key) == <<"Released", key>>

\* App::new followed by ApplicationHandler::resumed (winit calls it before
\* any window event): a blank frame and a paused sink.  `frame` is the set of
\* pixel numbers n_x + WIDTH * n_y whose colour channels are 0xff; the code
\* only ever writes 0x00 or XORs 0xff into all three channels of a pixel.
App_new(image) ==
    [ key_wait    |-> Idle,
      memory      |-> LoadMemory(image),
      pc          |-> START,
      sp          |-> 0,
      i           |-> 0,
      v_file      |-> [r \in 0..15 |-> 0],
      keypad      |-> [k \in 0..15 |-> "Released"],
      delay_timer |-> 0,
      sound_timer |-> 0,
      frame       |-> {},
      sink_paused |-> TRUE,
      panicked    |-> FALSE ]

App_panic(a) == [a EXCEPT !.panicked = TRUE]

App_clear_screen(a) == [a EXCEPT !.frame = {}]

\* self.sp -= 2 on a u8: below zero the build decides (panic or wrap to 254).
App_ret(a) ==
    IF a.sp < 2 /\ overflow_checks
    THEN App_panic(a)
    ELSE LET sp == (a.sp - 2 + 256) % 256
         IN  [a EXCEPT !.sp = sp, !.pc = ReadWord(a.memory, sp)]

App_jump(a, addr) == [a EXCEPT !.pc = addr]

\* The return address is written into emulated memory at sp, which starts at 0.
\* self.sp += 2 on a u8: past 255 the build decides (panic or wrap).
App_call(a, addr) ==
    LET m == MemWrite(MemWrite(a.memory, a.sp, a.pc \div 256), a.sp + 1, a.pc % 256)
    IN  IF a.sp + 2 > 255 /\ overflow_checks
        THEN App_panic([a EXCEPT !.memory = m])
        ELSE [a EXCEPT !.memory = m, !.sp = (a.sp + 2) % 256, !.pc = addr]

App_skip_vx_e_imm(a, x, imm) ==
    IF a.v_file[x] = imm THEN [a EXCEPT !.pc = a.pc + 2] ELSE a

App_skip_vx_ne_imm(a, x, imm) ==
    IF a.v_file[x] # imm THEN [a EXCEPT !.pc = a.pc + 2] ELSE a

App_skip_vx_e_vy(a, x, y) ==
    IF a.v_file[x] = a.v_file[y] THEN [a EXCEPT !.pc = a.pc + 2] ELSE a

App_load_imm(a, x, imm) == [a EXCEPT !.v_file[x] = imm]

App_add_imm(a, x, imm) == [a EXCEPT !.v_file[x] = wrapping_add(a.v_file[x], imm)]

App_or_reg(a, x, y) ==
    [a EXCEPT !.v_file =
        [[a.v_file EXCEPT ![x] = BitOr(a.v_file[x], a.v_file[y])] EXCEPT ![15] = 0]]

App_and_reg(a, x, y) ==
    [a EXCEPT !.v_file =
        [[a.v_file EXCEPT ![x] = BitAnd(a.v_file[x], a.v_file[y])] EXCEPT ![15] = 0]]

App_xor_reg(a, x, y) ==
    [a EXCEPT !.v_file =
        [[a.v_file EXCEPT ![x] = BitXor(a.v_file[x], a.v_file[y])] EXCEPT ![15] = 0]]

App_add_reg(a, x, y) ==
    LET r == overflowing_add(a.v_file[x], a.v_file[y])
    IN  [a EXCEPT !.v_file =
            [[a.v_file EXCEPT ![x] = r[1]] EXCEPT ![15] = IF r[2] THEN 1 ELSE 0]]

App_sub_reg(a, x, y) ==
    LET r == overflowing_sub(a.v_file[x], a.v_file[y])
    IN  [a EXCEPT !.v_file =
            [[a.v_file EXCEPT ![x] = r[1]] EXCEPT ![15] = IF r[2] THEN 0 ELSE 1]]

App_shr_reg(a, x, y) ==
    LET v_y == a.v_file[y]
    IN  [a EXCEPT !.v_file =
            [[a.v_file EXCEPT ![x] = wrapping_shr(v_y, 1)] EXCEPT ![15] = v_y % 2]]

App_subn_reg(a, x, y) ==
    LET r == overflowing_sub(a.v_file[y], a.v_file[x])
    IN  [a EXCEPT !.v_file =
            [[a.v_file EXCEPT ![x] = r[1]] EXCEPT ![15] = IF r[2] THEN 0 ELSE 1]]

\* shl_reg that writes the flag before the result: with x = F the result
\* overwrites the flag.
App_shl_reg_flag_first(a, x, y) ==
    LET v_y == a.v_file[y]
        b   == [a EXCEPT !.v_file[15] = v_y \div 128]
    IN  [b EXCEPT !.v_file[x] = wrapping_shl(v_y, 1)]

App_shl_reg(a, x, y) ==
    LET v_y == a.v_file[y]
    IN  [a EXCEPT !.v_file =
            [[a.v_file EXCEPT ![x] = wrapping_shl(v_y, 1)] EXCEPT ![15] = v_y \div 128]]

App_load_addr(a, addr) == [a EXCEPT !.i = addr]

App_skip_vx_ne_vy(a, x, y) ==
    IF a.v_file[x] # a.v_file[y] THEN [a EXCEPT !.pc = a.pc + 2] ELSE a

\* The test of app.rs:290, `row & (1 << (7 - j) >> (7 - j)) == 1`.  Shifts bind
\* tighter than &, and << and >> associate to the left, so the mask is
\* (1 << (7 - j)) >> (7 - j).
SpriteBitTest(row, j) ==
    BitAnd(row, wrapping_shr(wrapping_shl(1, 7 - j), 7 - j)) = 1

\* The two nested loops of App::draw_sprite, step k = 8 * i + j, carrying the
\* frame and the `flipped` flag: <<frame, flipped>> after the last step.
RECURSIVE DrawLoop(_, _, _, _, _, _)
DrawLoop(frame, flipped, rows, n_x, n_y, k) ==
    IF k >= 8 * Len(rows) THEN <<frame, flipped>>
    ELSE LET i   == k \div 8
             j   == k % 8
             row == rows[i + 1]
         IN  IF ~SpriteBitTest(row, j) \/ n_x + j >= WIDTH \/ n_y + i >= HEIGHT
             THEN DrawLoop(frame, flipped, rows, n_x, n_y, k + 1)
             ELSE LET index == n_x + j + WIDTH * (n_y + i)
                      lit   == index \in frame
                  IN  DrawLoop(IF lit THEN frame \ {index} ELSE frame \cup {index},
                               flipped \/ lit, rows, n_x, n_y, k + 1)

\* The slice memory[i .. i + funct] panics when it runs past the end of
\* memory (a wrapped u16 sum gives an end below the start, which panics too).
App_draw_sprite(a, x, y, funct) ==
    LET v_x == a.v_file[x]
        v_y == a.v_file[y]
        n_x == v_x % WIDTH
        n_y == v_y % HEIGHT
    IN  IF a.i + funct > MLEN
        THEN App_panic(a)
        ELSE LET r == DrawLoop(a.frame, FALSE, Slice(a.memory, a.i, funct), n_x, n_y, 0)
             IN  [a EXCEPT !.frame = r[1], !.v_file[15] = IF r[2] THEN 1 ELSE 0]

App_skip_pressed(a, x) ==
    IF is_pressed(a.keypad[a.v_file[x] % 16]) THEN [a EXCEPT !.pc = a.pc + 2] ELSE a

App_skip_not_pressed(a, x) ==
    IF ~is_pressed(a.keypad[a.v_file[x] % 16]) THEN [a EXCEPT !.pc = a.pc + 2] ELSE a

\* App_await_key without the roll-back of pc.
App_await_key_no_rollback(a, x) ==
    CASE a.key_wait = Idle -> [a EXCEPT !.key_wait = Waiting]
      [] a.key_wait[1] = "Released" -> [a EXCEPT !.v_file[x] = a.key_wait[2], !.key_wait = Idle]
      [] OTHER -> a

\* await_key that resolves as soon as a key is held down, without waiting
\* for its release.
App_await_key_resolves_on_press(a, x) ==
    LET b == [a EXCEPT !.pc = a.pc - 2]
    IN  CASE a.key_wait = Idle -> [b EXCEPT !.key_wait = Waiting]
          [] a.key_wait[1] \in {"Pressed", "Released"} ->
                [b EXCEPT !.pc = b.pc + 2, !.v_file[x] = a.key_wait[2], !.key_wait = Idle]
          [] OTHER -> b

\* pc was already advanced by the fetch: it is rolled back, and advanced
\* again only when the latch is Released.
App_await_key(a, x) ==
    LET b == [a EXCEPT !.pc = a.pc - 2]
    IN  CASE a.key_wait = Idle -> [b EXCEPT !.key_wait = Waiting]
          [] a.key_wait[1] = "Released" ->
                [b EXCEPT !.pc = b.pc + 2, !.v_file[x] = a.key_wait[2], !.key_wait = Idle]
          [] OTHER -> b

App_load_sound_timer(a, x) ==
    [a EXCEPT !.sound_timer = a.v_file[x],
              !.sink_paused = IF a.v_file[x] > 0 THEN FALSE ELSE a.sink_paused]

App_store_bcd(a, x) ==
    LET num == a.v_file[x]
    IN  IF a.i + 2 >= MLEN
        THEN App_panic(a)
        ELSE [a EXCEPT !.memory =
                MemWrite(MemWrite(MemWrite(a.memory,
                    a.i + 2, num % 10),
                    a.i + 1, (num \div 10) % 10),
                    a.i,     (num \div 100) % 10)]

App_store_block(a, x) ==
    IF a.i + x + 1 > MLEN
    THEN App_panic(a)
    ELSE [a EXCEPT !.memory = MemCopy(a.memory, a.i, [k \in 1..(x + 1) |-> a.v_file[k - 1]]),
                   !.i = a.i + x + 1]

App_load_block(a, x) ==
    IF a.i + x + 1 > MLEN
    THEN App_panic(a)
    ELSE [a EXCEPT !.v_file = [r \in 0..15 |->
                                  IF r <= x THEN MemRead(a.memory, a.i + r) ELSE a.v_file[r]],
                   !.i = a.i + x + 1]

\* self.i += Vx on a u16: past 0xFFFF the build decides (panic or wrap).
App_add_i(a, x) ==
    LET s == a.i + a.v_file[x]
    IN  IF s <= 65535 THEN [a EXCEPT !.i = s]
        ELSE IF overflow_checks THEN App_panic(a)
        ELSE [a EXCEPT !.i = s - 65536]

\* The dispatch of App::instruction_cycle on the fetched word.
App_execute(a, instr, rnd) ==
    LET opcode == instr \div 4096
        x      == (instr \div 256) % 16
        y      == (instr \div 16) % 16
        funct  == instr % 16
        imm    == instr % 256
        addr   == instr % 4096
    IN
    CASE opcode = 0 ->
            (CASE addr = 224 -> App_clear_screen(a)
               [] addr = 238 -> App_ret(a)
               [] OTHER -> a)
      [] opcode = 1  -> App_jump(a, addr)
      [] opcode = 2  -> App_call(a, addr)
      [] opcode = 3  -> App_skip_vx_e_imm(a, x, imm)
      [] opcode = 4  -> App_skip_vx_ne_imm(a, x, imm)
      [] opcode = 5  -> App_skip_vx_e_vy(a, x, y)
      [] opcode = 6  -> App_load_imm(a, x, imm)
      [] opcode = 7  -> App_add_imm(a, x, imm)
      [] opcode = 8  ->
            (CASE funct = 0  -> [a EXCEPT !.v_file[x] = a.v_file[y]]
               [] funct = 1  -> App_or_reg(a, x, y)
               [] funct = 2  -> App_and_reg(a, x, y)
               [] funct = 3  -> App_xor_reg(a, x, y)
               [] funct = 4  -> App_add_reg(a, x, y)
               [] funct = 5  -> App_sub_reg(a, x, y)
               [] funct = 6  -> App_shr_reg(a, x, y)
               [] funct = 7  -> App_subn_reg(a, x, y)
               [] funct = 14 -> App_shl_reg(a, x, y)
               [] OTHER -> a)
      [] opcode = 9  -> App_skip_vx_ne_vy(a, x, y)
      [] opcode = 10 -> App_load_addr(a, addr)
      [] opcode = 11 -> [a EXCEPT !.pc = addr + a.v_file[0]]
      [] opcode = 12 -> [a EXCEPT !.v_file[x] = BitAnd(rnd, imm)]
      [] opcode = 13 -> App_draw_sprite(a, x, y, funct)
      [] opcode = 14 ->
            (CASE imm = 158 -> App_skip_pressed(a, x)
               [] imm = 161 -> App_skip_not_pressed(a, x)
               [] OTHER -> a)
      [] opcode = 15 ->
            (CASE imm = 7   -> [a EXCEPT !.v_file[x] = a.delay_timer]
               [] imm = 10  -> App_await_key(a, x)
               [] imm = 21  -> [a EXCEPT !.delay_timer = a.v_file[x]]
               [] imm = 24  -> App_load_sound_timer(a, x)
               [] imm = 30  -> App_add_i(a, x)
               [] imm = 41  -> [a EXCEPT !.i = 5 * (a.v_file[x] % 256)]
               [] imm = 51  -> App_store_bcd(a, x)
               [] imm = 85  -> App_store_block(a, x)
               [] imm = 101 -> App_load_block(a, x)
               [] OTHER -> a)

\* App::instruction_cycle: fetch, advance pc, dispatch.
App_instruction_cycle(a, rnd) ==
    IF a.pc + 2 > MLEN
    THEN App_panic(a)
    ELSE App_execute([a EXCEPT !.pc = a.pc + 2], ReadWord(a.memory, a.pc), rnd)

\* WindowEvent::KeyboardInput.  Repeated and synthetic events do not match
\* the pattern and fall through to the catch-all arm.
App_keyboard_input(a, code, state, repeat, is_synthetic) ==
    IF repeat \/ is_synthetic \/ KeyOf(code) = None THEN a
    ELSE LET key_code == KeyOf(code)[1]
             k1 == [a EXCEPT !.keypad[key_code] = state]
         IN  CASE a.key_wait = Waiting ->
                    IF is_pressed(state) THEN [k1 EXCEPT !.key_wait = Pressed(key_code)] ELSE k1
               [] a.key_wait[1] = "Pressed" ->
                    IF ~is_pressed(state) /\ key_code = a.key_wait[2]
                    THEN [k1 EXCEPT !.key_wait = Released(a.key_wait[2])]
                    ELSE k1
               [] OTHER -> k1

\* The timer half of WindowEvent::RedrawRequested (app.rs:458-466).
App_refresh(a) ==
    LET s == saturating_sub(a.sound_timer, 1)
    IN  [a EXCEPT !.delay_timer = saturating_sub(a.delay_timer, 1),
                  !.sound_timer = s,
                  !.sink_paused = IF s = 0 THEN TRUE ELSE a.sink_paused]

\* WindowEvent::RedrawRequested: an instruction cycle when the cycle timer
\* has elapsed, then a timer tick when the refresh timer has elapsed.
App_redraw_requested(a, cycle_elapsed, refresh_elapsed, rnd) ==
    LET c == IF cycle_elapsed THEN App_instruction_cycle(a, rnd) ELSE a
    IN  IF c.panicked THEN c
        ELSE IF refresh_elapsed THEN App_refresh(c) ELSE c

---------------------------------------------------------------------------
(* Program images and host inputs *)

MaxDraws == 3      \* draw jobs a run of the core may enqueue
MaxKeyLog == 3     \* key events delivered to the core during one key-wait
MaxAppLog == 5     \* polls and key events seen by App during one key-wait
MaxStack == 2      \* return addresses App may hold at sp; a run stops once sp is beyond

\* The bytes of a program given as 16-bit instruction words, big-endian.
Bytes(words) ==
    [k \in 1..(2 * Len(words)) |->
        IF k % 2 = 1 THEN words[(k + 1) \div 2] \div 256 ELSE words[k \div 2] % 256]

\* Await a key into V1, load V2, start over.
KeyProgram == << \hF10A, \h6207, \h1200 >>

\* Draw the n-row sprite at I = 0x002 (inside the font) at (vx, vy), clear,
\* draw it again, then stay on a jump to itself.
DrawProgram(vx, vy, n) ==
    << \hA002, \h6000 + vx, \h6100 + vy, \hD010 + n, \h00E0, \hD010 + n, \h120C >>

DrawXs == {5, 70}
DrawYs == {3, 40}
DrawNs == {0, 2, 15}

\* A sprite read that runs past the end of memory.
DrawPastEnd == << \hAFFE, \hD015, \h1204 >>

\* Return with nothing on the call stack.
BareReturn == << \h6A01, \h00EE, \h1204 >>

\* One instruction of every arm of the dispatch, in an order that runs
\* through all of them: V10 = 0x37, V11 = 0x0F, I = 0x300, then the tour.
Tour ==
    << \h6A37, \h6B0F, \hA300, \h0123, \h120C, \h00EE, \h220A, \h3A37,   \* 0x200
       \h0000, \h4A37, \h5AB0, \h7AF5, \h8CA0, \h8AB1, \h8AB2, \h8CB3,   \* 0x210
       \h8AC4, \h8CB5, \h8AC6, \h8CA7, \h8ABE, \h8AB8, \h9AB0, \h0000,   \* 0x220
       \hB232, \h6A05, \hEA9E, \h0000, \hEAA1, \h0000, \hEA00, \hFB1E,   \* 0x230
       \hFB29, \hA300, \hFB33, \hF255, \hA300, \hF265, \hFAFF, \hC101,   \* 0x240
       \h6A02, \hFA15, \hFA18, \hFC07, \h00E0, \hD0B2, \hF50A, \h125E >> \* 0x250

\* Draw the n-row sprite stored behind the program twice in a row at (vx, vy).
\* Its rows are 0x80, 0x01, 0xFF, 0x3C.
AppDrawProgram(vx, vy, n) ==
    << \hA20C, \h6000 + vx, \h6100 + vy, \hD010 + n, \hD010 + n, \h120A, \h8001, \hFF3C >>

AppDrawXs == {0, 60, 70}
AppDrawYs == {0, 31}
AppDrawNs == {1, 2, 4}

\* The bytes 12 03 00 12 03: a jump to the odd address 0x203, where the
\* word read is 0x1203 again.
OddJump == << 18, 3, 0, 18, 3 >>

AppImages ==
    {Bytes(KeyProgram), Bytes(DrawPastEnd), Bytes(BareReturn), Bytes(Tour)}
        \cup {Bytes(AppDrawProgram(vx, vy, n)) : vx \in AppDrawXs, vy \in AppDrawYs, n \in AppDrawNs}

CoreImages ==
    {Bytes(KeyProgram), Bytes(DrawPastEnd), Bytes(BareReturn), Bytes(Tour), OddJump}
        \cup {Bytes(DrawProgram(vx, vy, n)) : vx \in DrawXs, vy \in DrawYs, n \in DrawNs}

HostKeyCodes == {"Digit3", "KeyW", "Escape"}
ElementStates == {"Pressed", "Released"}

\* The values random::<u8>() can return; only a Cxkk instruction reads one.
RandomBytes(word) == IF word \div 4096 = 12 THEN 0..255 ELSE {0}

\* The instruction word a machine fetches next (0 when the fetch is out of range).
NextWord(memory, pc) == IF pc + 2 > MEMORY_LENGTH THEN 0 ELSE ReadWord(memory, pc)

---------------------------------------------------------------------------
(* The core driven by its host: Chip8Variant calls in any order *)

InitHistory ==
    /\ produced = <<>>
    /\ returned = <<>>
    /\ key_log = <<>>
    /\ app_log = <<>>
    /\ app_wait = [pc |-> 0, x |-> 0, vx |-> 0]
    /\ app_draws = <<>>
    /\ fresh = TRUE
    /\ await_x = 0

InitCore ==
    /\ \E image \in CoreImages :
          /\ chip8 = Chip8_new(image)
          /\ app = App_new(image)
    /\ overflow_checks \in BOOLEAN
    /\ InitHistory

\* The draw job the instruction at pc issues when it executes: Clear for
\* 00E0, the sprite read at I with the two registers for Dxyn.
IssuedJobs(c) ==
    LET w == NextWord(c.memory, c.pc)
        d == InstructionDecode(w)
    IN  IF w = 224 THEN <<Clear>>
        ELSE IF d.opcode = 13 /\ c.indirect + d.funct <= MEMORY_LENGTH
             THEN <<Draw(Sprite(c.register_file[d.x], c.register_file[d.y],
                                Slice(c.memory, c.indirect, d.funct)))>>
        ELSE <<>>

Chip8InstructionCycle ==
    /\ ~chip8.panicked
    /\ Len(produced) + Len(IssuedJobs(chip8)) <= MaxDraws
    /\ \E rnd \in RandomBytes(NextWord(chip8.memory, chip8.pc)) :
          chip8' = Chip8_instruction_cycle(chip8, rnd)
    /\ produced' = produced \o IssuedJobs(chip8)
    /\ key_log' = IF ~chip8.awaiting_key /\ chip8'.awaiting_key THEN <<>> ELSE key_log
    /\ await_x' = IF ~chip8.awaiting_key /\ chip8'.awaiting_key
                  THEN InstructionDecode(NextWord(chip8.memory, chip8.pc)).x
                  ELSE await_x
    /\ UNCHANGED <<app, overflow_checks, returned, app_log, app_wait, app_draws>>
    /\ fresh' = FALSE

Chip8DecrementTimers ==
    /\ ~chip8.panicked
    /\ chip8' = Chip8_decrement_timers(chip8)
    /\ UNCHANGED <<app, overflow_checks, produced, returned, key_log, app_log, app_wait, app_draws, await_x>>
    /\ fresh' = FALSE

Chip8HandleInput ==
    /\ ~chip8.panicked
    /\ chip8.awaiting_key => Len(key_log) < MaxKeyLog
    /\ \E key_code \in HostKeyCodes, state \in ElementStates :
          /\ chip8' = Chip8_handle_input(chip8, key_code, state)
          /\ key_log' = IF chip8.awaiting_key /\ KeyOf(key_code) # None
                        THEN Append(key_log, <<KeyOf(key_code)[1], state>>)
                        ELSE key_log
    /\ UNCHANGED <<app, overflow_checks, produced, returned, app_log, app_wait, app_draws, await_x>>
    /\ fresh' = FALSE

Chip8PollDrawQueue ==
    /\ ~chip8.panicked
    /\ LET r == Chip8_poll_draw_queue(chip8)
       IN  /\ chip8' = r[2]
           /\ returned' = returned \o r[1]
    /\ UNCHANGED <<app, overflow_checks, produced, key_log, app_log, app_wait, app_draws, await_x>>
    /\ fresh' = FALSE

Chip8SetCollision ==
    /\ ~chip8.panicked
    /\ \E collides \in BOOLEAN :
          chip8' = Chip8_set_collision(chip8, collides)
    /\ UNCHANGED <<app, overflow_checks, produced, returned, key_log, app_log, app_wait, app_draws, await_x>>
    /\ fresh' = FALSE

NextCore ==
    \/ Chip8InstructionCycle
    \/ Chip8DecrementTimers
    \/ Chip8HandleInput
    \/ Chip8PollDrawQueue
    \/ Chip8SetCollision

SpecCore == InitCore /\ [][NextCore]_vars

---------------------------------------------------------------------------
(* App driven by winit: window events in any order *)

InitApp ==
    /\ \E image \in AppImages :
          /\ chip8 = Chip8_new(image)
          /\ app = App_new(image)
    /\ overflow_checks \in BOOLEAN
    /\ InitHistory

IsAwaitKey(word) == word \div 4096 = 15 /\ word % 256 = 10
IsDrawSprite(word) == word \div 4096 = 13

\* What a draw instruction about to execute works on, and what it left behind.
DrawRecord(before, after) ==
    LET d == InstructionDecode(NextWord(before.memory, before.pc))
    IN  [ x      |-> d.x,
          y      |-> d.y,
          i      |-> before.i,
          v_x    |-> before.v_file[d.x],
          v_y    |-> before.v_file[d.y],
          rows   |-> Slice(before.memory, before.i, d.funct),
          before |-> before.frame,
          after  |-> after.frame,
          vf     |-> after.v_file[15] ]

AppRedrawRequested ==
    /\ ~app.panicked
    /\ \E cycle_elapsed \in BOOLEAN, refresh_elapsed \in BOOLEAN :
          LET word  == NextWord(app.memory, app.pc)
              await == cycle_elapsed /\ IsAwaitKey(word)
              draw  == cycle_elapsed /\ IsDrawSprite(word)
          IN  /\ (cycle_elapsed /\ app.key_wait # Idle) => Len(app_log) < MaxAppLog
              /\ cycle_elapsed => app.sp <= 2 * MaxStack
              /\ \E rnd \in RandomBytes(word) :
                    app' = App_redraw_requested(app, cycle_elapsed, refresh_elapsed, rnd)
              /\ app_log' = IF ~cycle_elapsed THEN app_log
                            ELSE IF await /\ app.key_wait = Idle THEN << <<"poll">> >>
                            ELSE IF app.key_wait # Idle THEN Append(app_log, <<"poll">>)
                            ELSE <<>>
              /\ app_wait' = IF await /\ app.key_wait = Idle
                             THEN LET x == InstructionDecode(word).x
                                  IN  [pc |-> app.pc, x |-> x, vx |-> app.v_file[x]]
                             ELSE app_wait
              /\ app_draws' = IF ~cycle_elapsed THEN app_draws
                              ELSE IF draw /\ ~app'.panicked
                                   THEN (IF app_draws = <<>> THEN <<>>
                                         ELSE <<app_draws[Len(app_draws)]>>)
                                        \o <<DrawRecord(app, app')>>
                              ELSE <<>>
    /\ UNCHANGED <<chip8, overflow_checks, produced, returned, key_log, await_x>>
    /\ fresh' = FALSE

AppKeyboardInput ==
    /\ ~app.panicked
    /\ \E code \in HostKeyCodes, state \in ElementStates, repeat \in BOOLEAN :
          LET seen == ~repeat /\ KeyOf(code) # None /\ app.key_wait # Idle
          IN  /\ seen => Len(app_log) < MaxAppLog
              /\ app' = App_keyboard_input(app, code, state, repeat, FALSE)
              /\ app_log' = IF seen THEN Append(app_log, <<KeyOf(code)[1], state>>)
                            ELSE app_log
    /\ UNCHANGED <<chip8, overflow_checks, produced, returned, key_log, app_wait, app_draws, await_x>>
    /\ fresh' = FALSE

NextApp ==
    \/ AppRedrawRequested
    \/ AppKeyboardInput

SpecApp == InitApp /\ [][NextApp]_vars

---------------------------------------------------------------------------
(* App under a host that keeps redrawing: every RedrawRequested ends with *)
(* request_redraw(), so another one follows, and the cycle timer elapses. *)
(* The two host conditions are the premise of the key-wait liveness: a    *)
(* key is eventually pressed while App waits, and the key that was        *)
(* pressed is eventually released.                                        *)

\* RedrawRequested with the cycle timer elapsed.
AppLivePoll ==
    /\ ~app.panicked
    /\ app.sp <= 2 * MaxStack
    /\ LET word == NextWord(app.memory, app.pc)
       IN  /\ \E refresh_elapsed \in BOOLEAN :
              \E rnd \in RandomBytes(word) :
                 app' = App_redraw_requested(app, TRUE, refresh_elapsed, rnd)
           /\ app_wait' = IF IsAwaitKey(word) /\ app.key_wait = Idle
                          THEN LET x == InstructionDecode(word).x
                               IN  [pc |-> app.pc, x |-> x, vx |-> app.v_file[x]]
                          ELSE app_wait
    /\ UNCHANGED <<chip8, overflow_checks, produced, returned, key_log, app_log, app_draws, await_x>>
    /\ fresh' = FALSE

\* RedrawRequested with only the refresh timer elapsed.
AppLiveRefresh ==
    /\ ~app.panicked
    /\ app' = App_redraw_requested(app, FALSE, TRUE, 0)
    /\ UNCHANGED <<chip8, overflow_checks, produced, returned, key_log, app_log, app_wait, app_draws, await_x>>
    /\ fresh' = FALSE

\* KeyboardInput with the given key code and element state.
AppLiveKey(code, state, repeat) ==
    /\ ~app.panicked
    /\ app' = App_keyboard_input(app, code, state, repeat, FALSE)
    /\ UNCHANGED <<chip8, overflow_checks, produced, returned, key_log, app_log, app_wait, app_draws, await_x>>
    /\ fresh' = FALSE

AppLiveKeyboardInput ==
    \E code \in HostKeyCodes, state \in ElementStates, repeat \in BOOLEAN :
        AppLiveKey(code, state, repeat)

\* The host reports the press of a keypad key while App waits for one.
HostPress ==
    /\ app.key_wait = Waiting
    /\ \E code \in HostKeyCodes : KeyOf(code) # None /\ AppLiveKey(code, "Pressed", FALSE)

\* The host reports the release of the key App has latched as pressed.
HostRelease ==
    /\ app.key_wait[1] = "Pressed"
    /\ \E code \in HostKeyCodes :
          KeyOf(code) = Some(app.key_wait[2]) /\ AppLiveKey(code, "Released", FALSE)

\* The redraw that follows while an await-key instruction is stalled.
AppStallPoll ==
    /\ app.key_wait # Idle
    /\ AppLivePoll

NextAppLive ==
    \/ AppLivePoll
    \/ AppLiveRefresh
    \/ AppLiveKeyboardInput

SpecAppLive ==
    /\ InitApp
    /\ [][NextAppLive]_vars
    /\ WF_vars(AppStallPoll)
    /\ WF_vars(HostPress)
    /\ WF_vars(HostRelease)

---------------------------------------------------------------------------
(* Steps, named by the call that takes them *)

\* An instruction cycle of App: RedrawRequested with the cycle timer elapsed.
AppCycleStep ==
    /\ ~app.panicked
    /\ \E refresh_elapsed \in BOOLEAN :
       \E rnd \in RandomBytes(NextWord(app.memory, app.pc)) :
          app' = App_redraw_requested(app, TRUE, refresh_elapsed, rnd)

\* A call of Chip8Variant::instruction_cycle.
CoreCycleStep ==
    /\ ~chip8.panicked
    /\ \E rnd \in RandomBytes(NextWord(chip8.memory, chip8.pc)) :
          chip8' = Chip8_instruction_cycle(chip8, rnd)

\* An instruction cycle of the core that executes Dxyn to the end.
CoreDrawStep ==
    /\ CoreCycleStep
    /\ IsDrawSprite(NextWord(chip8.memory, chip8.pc))
    /\ ~chip8'.panicked

IsStore(word) == word \div 4096 = 15 /\ word % 256 \in {51, 85}
IsReturn(word) == word = 238

---------------------------------------------------------------------------
(* Short programs run to their last instruction by both interpreters *)

\* Instruction words that no handler matches.
UnknownWords ==
    ((0..255) \ {224, 238})
        \cup {\h0123, \h0200, \h0FFF}
        \cup {\h8AB0 + n : n \in {8, 9, 10, 11, 12, 13, 15}}
        \cup {\hEA00 + nn : nn \in (0..255) \ {158, 161}}
        \cup {\hFA00 + nn : nn \in (0..255) \ {7, 10, 21, 24, 30, 41, 51, 85, 101}}

\* VA = 2, delay timer = 2, I = 0x123, the word w, then a jump to itself.
UnknownProgram(w) == << \h6A02, \hFA15, \hA123, w, \h1208 >>

\* VF = 1, Vx = a, Vy = b (one register when x = y), the ALU instruction
\* 8xyn, then a jump to itself.
AluProgram(x, y, a, b, n) ==
    << \h6F01, \h6000 + 256 * x + a, \h6000 + 256 * y + b, \h8000 + 256 * x + 16 * y + n,
       \h1208 >>

AluRegs == {0, 1, 15}
AluValues == {0, 1, 128, 255}
AluFuncts == {1, 2, 3, 5, 6, 7, 14}

\* VF = 1, Vx = a, add k1 to Vx, add k2 to Vx, then a jump to itself.
AddImmProgram(x, a, k1, k2) ==
    << \h6F01, \h6000 + 256 * x + a, \h7000 + 256 * x + k1, \h7000 + 256 * x + k2, \h1208 >>

AddImmRegs == {5, 15}

\* Vx = v, I = addr, BCD of Vx to memory at I, then a jump to itself.
BcdProgram(x, v, addr) ==
    << \h6000 + 256 * x + v, \hA000 + addr, \hF033 + 256 * x, \h1206 >>

\* Every byte value at 0x300, and a few at the last three bytes of memory
\* and on top of the font.
BcdCases ==
    {<<3, v, \h300>> : v \in 0..255}
        \cup {<<15, v, \hFFD>> : v \in {0, 9, 205, 255}}
        \cup {<<0, v, 0>> : v \in {7, 205}}

\* V0..V3 = vals, I = 0x300, store V0..Vsx, V0..V3 = 0xFF, I = 0x300, load
\* V0..Vlx, then a jump to itself.
BlockProgram(vals, sx, lx) ==
    << \h6000 + vals[1], \h6100 + vals[2], \h6200 + vals[3], \h6300 + vals[4],
       \hA300, \hF055 + 256 * sx,
       \h60FF, \h61FF, \h62FF, \h63FF,
       \hA300, \hF065 + 256 * lx, \h1218 >>

BlockValues == { <<1, 2, 3, 4>>, <<255, 0, 128, 7>> }
BlockCounts == { <<3, 3>>, <<0, 0>>, <<3, 7>> }

\* Two nested calls; the inner subroutine stores V0 = 2 at I = addr with
\* F055 before it returns.  The words, by address:
\*   0x200 call 0x206    0x202 jump 0x202    0x204 -
\*   0x206 call 0x20C    0x208 return        0x20A -
\*   0x20C V0 = 2        0x20E I = addr      0x210 F055      0x212 return
CallProgram(addr) ==
    << \h2206, \h1202, \h0000, \h220C, \h00EE, \h0000,
       \h6002, \hA000 + addr, \hF055, \h00EE >>

\* A store far from everything, and one to address 3.
CallStoreAddrs == {\h300, 3}

\* V0 = 205, V1 = 7, V2 = 9, I = addr, one instruction that works on the
\* bytes from I on, then a jump to itself.
EdgeProgram(addr, op) ==
    << \h60CD, \h6107, \h6209, \hA000 + addr, op, \h120A >>

\* BCD of V0, store and load of V0..V2, a 3-row and a 0-row sprite.
EdgeOps == {\hF033, \hF255, \hF265, \hD013, \hD010}

\* The last addresses of memory: three bytes fit at 0xFFD only.
EdgeAddrs == {\hFFD, \hFFE, \hFFF}

\* A jump to the last word of memory, which is executed and leaves PC at
\* 0x1000, and a jump to the last byte of memory.
FetchPastEnd == { <<\h1FFE>>, <<\h1FFF>> }

\* The instructions the other programs leave out, none of them a call,
\* return, clear, draw, await-key or random.  The words, by address:
\*   0x200 V0 = 5         0x202 skip if V0 = 5    0x204 -   0x206 skip if V0 # 5
\*   0x208 V1 = 3         0x20A skip if V0 = V1   0x20C skip if V0 # V1   0x20E -
\*   0x210 V1 = V0        0x212 V0 += V1          0x214 delay = V0
\*   0x216 V2 = delay     0x218 sound = V0        0x21A I = 0x2F0
\*   0x21C I += V0        0x21E I = sprite of V1  0x220 skip if key V0 down
\*   0x222 skip if key V0 up   0x224 -            0x226 jump 0x21E + V0
\*   0x228 jump 0x228
StraightProgram ==
    << \h6005, \h3005, \h0000, \h4005, \h6103, \h5010, \h9010, \h0000,
       \h8100, \h8014, \hF015, \hF207, \hF018, \hA2F0, \hF01E, \hF129,
       \hE09E, \hE0A1, \h0000, \hB21E, \h1228 >>

ProgImages ==
    {Bytes(UnknownProgram(w)) : w \in UnknownWords}
        \cup {Bytes(AluProgram(x, y, a, b, n)) :
                 x \in AluRegs, y \in AluRegs, a \in AluValues, b \in AluValues, n \in AluFuncts}
        \cup {Bytes(AddImmProgram(x, a, k1, k2)) :
                 x \in AddImmRegs, a \in AluValues, k1 \in AluValues, k2 \in AluValues}
        \cup {Bytes(BcdProgram(t[1], t[2], t[3])) : t \in BcdCases}
        \cup {Bytes(BlockProgram(vals, n[1], n[2])) : vals \in BlockValues, n \in BlockCounts}
        \cup {Bytes(CallProgram(addr)) : addr \in CallStoreAddrs}
        \cup {Bytes(EdgeProgram(addr, op)) : addr \in EdgeAddrs, op \in EdgeOps}
        \cup {Bytes(p) : p \in FetchPastEnd}
        \cup {Bytes(StraightProgram)}

\* The machine has reached a jump to its own address.
Halted(memory, pc) == NextWord(memory, pc) = 4096 + pc

InitProg ==
    /\ \E image \in ProgImages :
          /\ chip8 = Chip8_new(image)
          /\ app = App_new(image)
    /\ overflow_checks \in BOOLEAN
    /\ InitHistory

ProgCoreCycle ==
    /\ ~chip8.panicked
    /\ ~Halted(chip8.memory, chip8.pc)
    /\ \E rnd \in RandomBytes(NextWord(chip8.memory, chip8.pc)) :
          chip8' = Chip8_instruction_cycle(chip8, rnd)
    /\ await_x' = IF ~chip8.awaiting_key /\ chip8'.awaiting_key
                  THEN InstructionDecode(NextWord(chip8.memory, chip8.pc)).x
                  ELSE await_x
    /\ UNCHANGED <<app, overflow_checks, produced, returned, key_log, app_log, app_wait, app_draws>>
    /\ fresh' = FALSE

ProgAppRedraw ==
    /\ ~app.panicked
    /\ ~Halted(app.memory, app.pc)
    /\ \E refresh_elapsed \in BOOLEAN :
       \E rnd \in RandomBytes(NextWord(app.memory, app.pc)) :
          app' = App_redraw_requested(app, TRUE, refresh_elapsed, rnd)
    /\ UNCHANGED <<chip8, overflow_checks, produced, returned, key_log, app_log, app_wait, app_draws, await_x>>
    /\ fresh' = FALSE

NextProg ==
    \/ ProgCoreCycle
    \/ ProgAppRedraw

SpecProg == InitProg /\ [][NextProg]_vars

\* A RedrawRequested of App in which the instruction cycle ran and the
\* refresh timer had not elapsed.
AppInstructionStep ==
    /\ ~app.panicked
    /\ \E rnd \in RandomBytes(NextWord(app.memory, app.pc)) :
          app' = App_redraw_requested(app, TRUE, FALSE, rnd)

---------------------------------------------------------------------------
(* C1 *)

LogPoll == <<"poll">>
LogKey(k, state) == <<k, state>>

\* C1: App's key-wait.  With the await instruction Fx0A at address A: after
\* poll 1 the latch is Waiting and PC = A; after a press of k and poll 2 the
\* latch is Pressed(k) and PC = A; after the release of k the latch is
\* Released(k) with PC = A and Vx untouched, and poll 3 is the one that
\* resolves: Vx = k, latch Idle, PC = A + 2.  As long as no release of k
\* arrives after the press of k (releases of other keys, presses, polls), the
\* latch stays Pressed(k), PC stays A and Vx keeps its value.
C1_KeyWaitSequence ==
    LET A  == app_wait.pc
        x  == app_wait.x
        vx == app_wait.vx
    IN  /\ app_log = <<LogPoll>> =>
              app.pc = A /\ app.key_wait = Waiting /\ app.v_file[x] = vx
        /\ \A k \in 0..15 :
              /\ app_log = <<LogPoll, LogKey(k, "Pressed"), LogPoll>> =>
                    app.pc = A /\ app.key_wait = Pressed(k) /\ app.v_file[x] = vx
              /\ app_log = <<LogPoll, LogKey(k, "Pressed"), LogPoll, LogKey(k, "Released")>> =>
                    app.pc = A /\ app.key_wait = Released(k) /\ app.v_file[x] = vx
              /\ app_log = <<LogPoll, LogKey(k, "Pressed"), LogPoll, LogKey(k, "Released"),
                             LogPoll>> =>
                    app.pc = A + 2 /\ app.key_wait = Idle /\ app.v_file[x] = k
              /\ ( /\ Len(app_log) >= 2
                   /\ app_log[1] = LogPoll
                   /\ app_log[2] = LogKey(k, "Pressed")
                   /\ \A n \in 3..Len(app_log) : app_log[n] # LogKey(k, "Released") ) =>
                    app.pc = A /\ app.key_wait = Pressed(k) /\ app.v_file[x] = vx

\* Key 5 was pressed and released around the second poll and the third poll
\* has written it to the target register.
C1_Witness ==
    /\ app_log = <<LogPoll, LogKey(5, "Pressed"), LogPoll, LogKey(5, "Released"), LogPoll>>
    /\ app.key_wait = Idle
    /\ app.v_file[app_wait.x] = 5
    /\ app.pc = app_wait.pc + 2

---------------------------------------------------------------------------
(* C2 - C6: the core *)

\* C2: while the core is waiting for a key, an instruction cycle re-executes
\* the await instruction: PC does not advance, and registers, index register,
\* memory, call stack, timers and draw queue are unchanged.
C2_WaitingCycleStalls ==
    [][ (chip8.awaiting_key /\ CoreCycleStep) =>
            /\ chip8'.pc = chip8.pc
            /\ chip8'.register_file = chip8.register_file
            /\ chip8'.indirect = chip8.indirect
            /\ chip8'.memory = chip8.memory
            /\ chip8'.stack = chip8.stack
            /\ chip8'.delay_timer = chip8.delay_timer
            /\ chip8'.sound_timer = chip8.sound_timer
            /\ chip8'.draw_queue = chip8.draw_queue ]_vars

\* Some key was pressed and later released in the log.
HasPressRelease(log) ==
    \E m \in DOMAIN log : \E n \in DOMAIN log :
        m < n /\ log[m][2] = "Pressed" /\ log[n] = LogKey(log[m][1], "Released")

\* The core's key-wait has been resolved by the events of key_log.
CoreResolved == ~chip8.awaiting_key /\ key_log # <<>>

\* C3: the core's key-wait resolves only after a press of some key followed
\* by a release of that key, both delivered during the wait; and a key is
\* the candidate (latched) only if it was pressed during the wait.
C3_ResolveNeedsPressRelease ==
    /\ CoreResolved => HasPressRelease(key_log)
    /\ (chip8.awaiting_key /\ chip8.key_latch # None) =>
            \E n \in DOMAIN key_log : key_log[n] = LogKey(chip8.key_latch[1], "Pressed")

\* C4: Dxyn appends exactly one Draw command, with origin
\* (Vx mod 64, Vy mod 32) and the n bytes memory[I .. I+n) as rows.
C4_DrawOriginReduced ==
    [][ CoreDrawStep =>
            LET d == InstructionDecode(NextWord(chip8.memory, chip8.pc))
            IN  chip8'.draw_queue =
                    Append(chip8.draw_queue,
                           Draw(Sprite(chip8.register_file[d.x] % WIDTH,
                                       chip8.register_file[d.y] % HEIGHT,
                                       Slice(chip8.memory, chip8.indirect, d.funct)))) ]_vars

\* C5: the draw queue is FIFO and loss-free.  What was issued by executed
\* 00E0 / Dxyn instructions is, in order, what poll_draw_queue has returned
\* followed by what is still queued; poll_draw_queue returns None exactly
\* when everything issued has been returned; and the queue changes only by
\* an append in a cycle that executes 00E0 or Dxyn, or by a poll that removes
\* its head and returns it.
C5_DrawQueueFifo ==
    [][ /\ produced' = returned' \o chip8'.draw_queue
        /\ (Chip8_poll_draw_queue(chip8')[1] = None) <=> (produced' = returned')
        /\ chip8'.draw_queue # chip8.draw_queue =>
              \/ /\ CoreCycleStep
                 /\ IssuedJobs(chip8) # <<>>
                 /\ chip8'.draw_queue = chip8.draw_queue \o IssuedJobs(chip8)
                 /\ returned' = returned
              \/ /\ chip8.draw_queue # <<>>
                 /\ chip8'.draw_queue = Tail(chip8.draw_queue)
                 /\ returned' = Append(returned, Head(chip8.draw_queue))
                 /\ chip8' = [chip8 EXCEPT !.draw_queue = Tail(chip8.draw_queue)] ]_vars

\* Two different jobs have been returned in the order they were issued while
\* a third is still queued.
C5_Witness ==
    /\ Len(returned) = 2
    /\ returned[1].kind = "Draw"
    /\ returned[2].kind = "Clear"
    /\ Len(chip8.draw_queue) = 1
    /\ produced = returned \o chip8.draw_queue

\* C6: Dxyn leaves all sixteen registers as they are, and set_collision(b)
\* writes 1 (b true) or 0 (b false) to V0xF and changes nothing else.
C6_CollisionWrittenByRenderer ==
    [][ /\ CoreDrawStep => chip8'.register_file = chip8.register_file
        /\ \A b \in BOOLEAN :
              chip8' = Chip8_set_collision(chip8, b) =>
                  /\ chip8'.register_file[15] = (IF b THEN 1 ELSE 0)
                  /\ \A r \in 0..14 : chip8'.register_file[r] = chip8.register_file[r]
                  /\ chip8' = [chip8 EXCEPT !.register_file = chip8'.register_file] ]_vars

\* A sprite was drawn with V0 = 70 and the renderer has reported a collision.
C6_Witness ==
    /\ chip8.instr.opcode = 13
    /\ chip8.draw_queue # <<>>
    /\ chip8.register_file[0] = 70
    /\ chip8.register_file[15] = 1

---------------------------------------------------------------------------
(* C7 - C10 *)

\* The pixels a draw is to toggle: (ox + col, oy + row) for every set bit
\* (7 - col) of row byte `row` that lands inside the frame, with
\* (ox, oy) = (Vx mod 64, Vy mod 32).
SpritePixels(d) ==
    LET ox == d.v_x % WIDTH
        oy == d.v_y % HEIGHT
    IN  { ox + col + WIDTH * (oy + row) :
            <<row, col>> \in { rc \in (0..(Len(d.rows) - 1)) \X (0..7) :
                                 /\ Bit(d.rows[rc[1] + 1], 7 - rc[2]) = 1
                                 /\ ox + rc[2] < WIDTH
                                 /\ oy + rc[1] < HEIGHT } }

\* C7: the same Dxyn executed twice in a row, with I, Vx and Vy unchanged and
\* at least one set sprite bit inside the frame, gives back the display as it
\* was before the first draw, and the second draw leaves V0xF = 1.
C7_DrawTwiceRestores ==
    ( /\ Len(app_draws) = 2
      /\ app_draws[1].x = app_draws[2].x
      /\ app_draws[1].y = app_draws[2].y
      /\ app_draws[1].i = app_draws[2].i
      /\ app_draws[1].v_x = app_draws[2].v_x
      /\ app_draws[1].v_y = app_draws[2].v_y
      /\ app_draws[1].rows = app_draws[2].rows
      /\ SpritePixels(app_draws[1]) # {} ) =>
        /\ app_draws[2].after = app_draws[1].before
        /\ app_draws[2].vf = 1

\* C8: a draw toggles exactly the in-frame pixels of the sprite's set bits,
\* leaves every other pixel alone, and sets V0xF to 1 iff one of the toggled
\* pixels was lit before the draw, else to 0.
C8_SpriteBlit ==
    \A n \in DOMAIN app_draws :
        LET d  == app_draws[n]
            px == SpritePixels(d)
        IN  /\ d.after = (d.before \ px) \cup (px \ d.before)
            /\ d.vf = (IF px \cap d.before # {} THEN 1 ELSE 0)

\* C9: after load, memory is written only by store-block (Fx55) and BCD
\* (Fx33): any step that changes a memory byte, in either interpreter, is an
\* instruction cycle executing one of the two.
C9_MemoryWrittenOnlyByStores ==
    [][ /\ app'.memory # app.memory =>
              AppCycleStep /\ IsStore(NextWord(app.memory, app.pc))
        /\ chip8'.memory # chip8.memory =>
              CoreCycleStep /\ IsStore(NextWord(chip8.memory, chip8.pc)) ]_vars

\* C10: a return (00EE) executed with no call outstanding aborts the run, in
\* either interpreter.
C10_ReturnOnEmptyStackAborts ==
    [][ /\ (AppCycleStep /\ IsReturn(NextWord(app.memory, app.pc)) /\ app.sp = 0) =>
              app'.panicked
        /\ (CoreCycleStep /\ IsReturn(NextWord(chip8.memory, chip8.pc)) /\ chip8.stack = <<>>) =>
              chip8'.panicked ]_vars

---------------------------------------------------------------------------
(* C11 - C20 *)

\* The instruction words the dispatch has no handler for.
IsUnknown(word) ==
    LET d == InstructionDecode(word)
    IN  \/ d.opcode = 0 /\ d.address \notin {224, 238}
        \/ d.opcode = 8 /\ d.funct \notin {0, 1, 2, 3, 4, 5, 6, 7, 14}
        \/ d.opcode = 14 /\ d.immediate \notin {158, 161}
        \/ d.opcode = 15 /\ d.immediate \notin {7, 10, 21, 24, 30, 41, 51, 85, 101}

\* C11: an instruction cycle that fetches a word with no handler does not
\* abort, advances PC by exactly 2 and leaves registers, I, memory, stack,
\* timers, keyboard, key-wait state and draw queue (App: frame) unchanged,
\* in both interpreters.
C11_UnknownIsNoOpAdvance ==
    [][ /\ ( /\ CoreCycleStep
             /\ chip8.pc + 2 <= MEMORY_LENGTH
             /\ IsUnknown(NextWord(chip8.memory, chip8.pc)) ) =>
                /\ ~chip8'.panicked
                /\ chip8'.pc = chip8.pc + 2
                /\ chip8'.register_file = chip8.register_file
                /\ chip8'.indirect = chip8.indirect
                /\ chip8'.memory = chip8.memory
                /\ chip8'.stack = chip8.stack
                /\ chip8'.delay_timer = chip8.delay_timer
                /\ chip8'.sound_timer = chip8.sound_timer
                /\ chip8'.keyboard = chip8.keyboard
                /\ chip8'.key_latch = chip8.key_latch
                /\ chip8'.awaiting_key = chip8.awaiting_key
                /\ chip8'.draw_queue = chip8.draw_queue
        /\ ( /\ AppInstructionStep
             /\ app.pc + 2 <= MLEN
             /\ IsUnknown(NextWord(app.memory, app.pc)) ) =>
                app' = [app EXCEPT !.pc = app.pc + 2] ]_vars

\* Both interpreters have stepped over the unknown word 0xFAFF with the
\* delay timer still at 2.
C11_Witness ==
    /\ chip8.ir = \hFAFF
    /\ chip8.pc = ENTRY + 8
    /\ ~chip8.panicked
    /\ chip8.delay_timer = 2
    /\ app.pc = START + 8
    /\ ReadWord(app.memory, START + 6) = \hFAFF
    /\ app.delay_timer = 2
    /\ ~app.panicked

\* The ALU instruction 8xyn the core is about to execute, if it is one:
\* a cycle of the core that fetches 8xyn with funct n.
CoreAluStep(n) ==
    /\ CoreCycleStep
    /\ chip8.pc + 2 <= MEMORY_LENGTH
    /\ InstructionDecode(NextWord(chip8.memory, chip8.pc)).opcode = 8
    /\ InstructionDecode(NextWord(chip8.memory, chip8.pc)).funct = n

\* The same for App.
AppAluStep(n) ==
    /\ AppInstructionStep
    /\ app.pc + 2 <= MLEN
    /\ InstructionDecode(NextWord(app.memory, app.pc)).opcode = 8
    /\ InstructionDecode(NextWord(app.memory, app.pc)).funct = n

\* C12: after sub (8xy5) V0xF = 1 iff Vx_before >= Vy_before, after subn
\* (8xy7) V0xF = 1 iff Vy_before >= Vx_before, else 0, for all x and y
\* (x = 0xF, y = 0xF and x = y included); for x # 0xF the result is
\* Vx = (Vx_before - Vy_before) mod 256, respectively (Vy_before - Vx_before)
\* mod 256.
C12_SubFlagIsNoBorrow ==
    [][ LET d  == InstructionDecode(NextWord(chip8.memory, chip8.pc))
            vx == chip8.register_file[d.x]
            vy == chip8.register_file[d.y]
        IN  /\ CoreAluStep(5) =>
                  /\ chip8'.register_file[15] = (IF vx >= vy THEN 1 ELSE 0)
                  /\ d.x # 15 => chip8'.register_file[d.x] = (vx - vy + 256) % 256
            /\ CoreAluStep(7) =>
                  /\ chip8'.register_file[15] = (IF vy >= vx THEN 1 ELSE 0)
                  /\ d.x # 15 => chip8'.register_file[d.x] = (vy - vx + 256) % 256 ]_vars

\* The core has executed 8015 on V0 = 1, V1 = 128: V0 = 129 and the flag,
\* 1 before, is 0.
C12_Witness ==
    /\ chip8.ir = \h8015
    /\ chip8.register_file[0] = 129
    /\ chip8.register_file[1] = 128
    /\ chip8.register_file[15] = 0

\* C13: after OR (8xy1), AND (8xy2) or XOR (8xy3) V0xF is 0, whatever it
\* was and also when x or y is 0xF, and for x # 0xF Vx holds the bitwise
\* OR / AND / XOR of Vx_before and Vy_before; in both interpreters.
C13_LogicOpsClearFlag ==
    [][ LET d  == InstructionDecode(NextWord(chip8.memory, chip8.pc))
            vx == chip8.register_file[d.x]
            vy == chip8.register_file[d.y]
            e  == InstructionDecode(NextWord(app.memory, app.pc))
            ax == app.v_file[e.x]
            ay == app.v_file[e.y]
        IN  /\ \A n \in {1, 2, 3} :
                  /\ CoreAluStep(n) =>
                        /\ chip8'.register_file[15] = 0
                        /\ d.x # 15 => chip8'.register_file[d.x] =
                              (CASE n = 1 -> BitOr(vx, vy)
                                 [] n = 2 -> BitAnd(vx, vy)
                                 [] n = 3 -> BitXor(vx, vy))
                  /\ AppAluStep(n) =>
                        /\ app'.v_file[15] = 0
                        /\ e.x # 15 => app'.v_file[e.x] =
                              (CASE n = 1 -> BitOr(ax, ay)
                                 [] n = 2 -> BitAnd(ax, ay)
                                 [] n = 3 -> BitXor(ax, ay)) ]_vars

\* Both interpreters have executed 8011 on V0 = 1, V1 = 128 with the flag
\* at 1 before: V0 = 129 and the flag is 0.
C13_Witness ==
    /\ chip8.ir = \h8011
    /\ chip8.register_file[0] = 129
    /\ chip8.register_file[15] = 0
    /\ app.pc = START + 8
    /\ ReadWord(app.memory, START + 6) = \h8011
    /\ app.v_file[0] = 129
    /\ app.v_file[15] = 0

\* C14: after shift-right (8xy6) V0xF is bit 0 of Vy_before and, for
\* x # 0xF, Vx = Vy_before >> 1; after shift-left (8xyE) V0xF is bit 7 of
\* Vy_before and, for x # 0xF, Vx = (Vy_before << 1) mod 256.  The source
\* operand is Vy, not Vx.
C14_ShiftSourceIsVy ==
    [][ LET d  == InstructionDecode(NextWord(chip8.memory, chip8.pc))
            vy == chip8.register_file[d.y]
        IN  /\ CoreAluStep(6) =>
                  /\ chip8'.register_file[15] = vy % 2
                  /\ d.x # 15 => chip8'.register_file[d.x] = vy \div 2
            /\ CoreAluStep(14) =>
                  /\ chip8'.register_file[15] = vy \div 128
                  /\ d.x # 15 => chip8'.register_file[d.x] = (vy * 2) % 256 ]_vars

\* The core has executed 8016 on V0 = 0, V1 = 255: V0 = 127 and the flag is
\* 1, the low bit of V1.
C14_Witness ==
    /\ chip8.ir = \h8016
    /\ chip8.register_file[0] = 127
    /\ chip8.register_file[1] = 255
    /\ chip8.register_file[15] = 1

\* The core has run a program of the shape 6F01, 6xaa, 7xk1, 7xk2 to the
\* jump-to-itself behind it.
AddImmRan ==
    LET w == [k \in 0..3 |-> InstructionDecode(ReadWord(chip8.memory, ENTRY + 2 * k))]
    IN  /\ chip8.pc = ENTRY + 8
        /\ Halted(chip8.memory, chip8.pc)
        /\ ~chip8.panicked
        /\ ReadWord(chip8.memory, ENTRY) = \h6F01
        /\ w[1].opcode = 6
        /\ w[2].opcode = 7
        /\ w[3].opcode = 7
        /\ w[2].x = w[1].x
        /\ w[3].x = w[1].x

\* C15: add-immediate wraps and sets no flag.  After Vx = orig, add k1, add
\* k2: Vx = (orig + k1 + k2) mod 256 and, for x # 0xF, V0xF is what it was
\* before the additions (1), also when the sum exceeds 255.
C15_AddImmWrapsNoFlag ==
    AddImmRan =>
        LET w == [k \in 1..3 |-> InstructionDecode(ReadWord(chip8.memory, ENTRY + 2 * k))]
            x == w[1].x
        IN  /\ chip8.register_file[x] =
                  (w[1].immediate + w[2].immediate + w[3].immediate) % 256
            /\ x # 15 => chip8.register_file[15] = 1

\* V5 = 128 + 255 + 255 mod 256 = 126 after two additions that both passed
\* 255, and the flag is still 1.
C15_Witness ==
    /\ AddImmRan
    /\ ReadWord(chip8.memory, ENTRY + 2) = \h6580
    /\ ReadWord(chip8.memory, ENTRY + 4) = \h75FF
    /\ ReadWord(chip8.memory, ENTRY + 6) = \h75FF
    /\ chip8.register_file[5] = 126
    /\ chip8.register_file[15] = 1

\* C16: BCD store (Fx33) with I + 2 inside memory leaves the hundreds,
\* tens and ones digits of Vx in memory[I], memory[I+1], memory[I+2] (each in
\* 0..9, 100 * m[I] + 10 * m[I+1] + m[I+2] = Vx) and leaves I, all registers
\* and every other memory byte unchanged.
C16_BcdDigits ==
    [][ LET d == InstructionDecode(NextWord(chip8.memory, chip8.pc))
            I == chip8.indirect
            v == chip8.register_file[d.x]
        IN  ( /\ CoreCycleStep
              /\ chip8.pc + 2 <= MEMORY_LENGTH
              /\ d.opcode = 15
              /\ d.immediate = 51
              /\ I + 2 < MEMORY_LENGTH ) =>
                /\ ~chip8'.panicked
                /\ \A k \in 0..2 : MemRead(chip8'.memory, I + k) \in 0..9
                /\ 100 * MemRead(chip8'.memory, I) + 10 * MemRead(chip8'.memory, I + 1)
                       + MemRead(chip8'.memory, I + 2) = v
                /\ chip8'.indirect = I
                /\ chip8'.register_file = chip8.register_file
                /\ \A a \in (0..(MEMORY_LENGTH - 1)) \ {I, I + 1, I + 2} :
                       MemRead(chip8'.memory, a) = MemRead(chip8.memory, a) ]_vars

\* The core has stored V3 = 205 at 0x300 as 2, 0, 5.
C16_Witness ==
    /\ chip8.ir = \hF333
    /\ chip8.register_file[3] = 205
    /\ chip8.indirect = \h300
    /\ MemRead(chip8.memory, \h300) = 2
    /\ MemRead(chip8.memory, \h301) = 0
    /\ MemRead(chip8.memory, \h302) = 5

\* The instruction words of the program the core was loaded with, by index.
CoreWord(k) == InstructionDecode(ReadWord(chip8.memory, ENTRY + 2 * k))

\* The core runs a program of the shape: V0..V3 written, I = A, Fs55,
\* V0..V3 overwritten, I = A, Fl65, jump to itself.  The program text lies
\* outside the stored block, so it reads the same throughout the run.
BlockShape ==
    /\ \A k \in 0..3 : CoreWord(k).opcode = 6 /\ CoreWord(k).x = k
    /\ CoreWord(4).opcode = 10
    /\ CoreWord(5).opcode = 15 /\ CoreWord(5).immediate = 85
    /\ \A k \in 0..3 : CoreWord(6 + k).opcode = 6 /\ CoreWord(6 + k).x = k
    /\ CoreWord(10) = CoreWord(4)
    /\ CoreWord(11).opcode = 15 /\ CoreWord(11).immediate = 101
    /\ Halted(chip8.memory, ENTRY + 24)
    /\ ~chip8.panicked

\* C17 as the spec words it: after the store of V0..V3 and the load from
\* the same address, V4..V7 equal the stored V0..V3 and the index register
\* has advanced by 4 in each of the two operations.
C17_RoundTripIntoV4V7 ==
    (BlockShape /\ CoreWord(5).x = 3 /\ chip8.pc = ENTRY + 24) =>
        /\ \A k \in 0..3 : chip8.register_file[4 + k] = CoreWord(k).immediate
        /\ chip8.indirect = CoreWord(4).address + 4

\* C17: store-block Fs55 at I = A followed by load-block Fl65 at I = A
\* gives the registers both operations cover, V0..Vmin(s,l), the values
\* stored from address A (load-block always fills V0 upwards; V4..V7 are
\* filled only by l >= 4, from A+4..A+7); I = A + s + 1 after the store and
\* I = A + l + 1 after the load.
C17_BlockRoundTrip ==
    LET A == CoreWord(4).address
        s == CoreWord(5).x
        l == CoreWord(11).x
    IN  /\ (BlockShape /\ chip8.pc = ENTRY + 12) =>
              /\ chip8.indirect = A + s + 1
              /\ \A k \in 0..s : MemRead(chip8.memory, A + k) = CoreWord(k).immediate
        /\ (BlockShape /\ chip8.pc = ENTRY + 24) =>
              /\ chip8.indirect = A + l + 1
              /\ \A k \in 0..15 :
                    (k <= s /\ k <= l) => chip8.register_file[k] = CoreWord(k).immediate

\* V0..V3 = 255, 0, 128, 7 were stored at 0x300, overwritten with 0xFF and
\* loaded back by F365; I is 0x304.
C17_Witness ==
    /\ BlockShape
    /\ chip8.pc = ENTRY + 24
    /\ chip8.ir = \hF365
    /\ CoreWord(11).x = 3
    /\ chip8.register_file[0] = 255
    /\ chip8.register_file[1] = 0
    /\ chip8.register_file[2] = 128
    /\ chip8.register_file[3] = 7
    /\ chip8.indirect = \h304

\* A step of the core that is a timer tick: each timer goes to
\* max(value - 1, 0) and nothing else in the machine changes.
CoreTickStep ==
    chip8' = [chip8 EXCEPT
                !.delay_timer = IF chip8.delay_timer = 0 THEN 0 ELSE chip8.delay_timer - 1,
                !.sound_timer = IF chip8.sound_timer = 0 THEN 0 ELSE chip8.sound_timer - 1]

\* C18: the core's timers are changed only by the timer tick and the two
\* set opcodes.  A step that changes the delay timer is a tick (each timer
\* to max(value - 1, 0), never from 0 to 255, nothing else changed) or an
\* instruction cycle executing Fx15, which sets it to Vx; a step that changes
\* the sound timer is a tick or a cycle executing Fx18, which sets it to Vx.
\* Key events, draw-queue polls and collision reports change neither.
C18_TimersChangedByTickAndSet ==
    [][ LET d == InstructionDecode(NextWord(chip8.memory, chip8.pc))
        IN  /\ chip8'.delay_timer # chip8.delay_timer =>
                  \/ CoreTickStep
                  \/ /\ CoreCycleStep
                     /\ d.opcode = 15 /\ d.immediate = 21
                     /\ chip8'.delay_timer = chip8.register_file[d.x]
                     /\ chip8'.sound_timer = chip8.sound_timer
            /\ chip8'.sound_timer # chip8.sound_timer =>
                  \/ CoreTickStep
                  \/ /\ CoreCycleStep
                     /\ d.opcode = 15 /\ d.immediate = 24
                     /\ chip8'.sound_timer = chip8.register_file[d.x]
                     /\ chip8'.delay_timer = chip8.delay_timer ]_vars

\* The delay timer, set to 2, has been ticked down to 0 and has stayed
\* there while the sound timer, set later, is at 1.
C18_Witness ==
    /\ chip8.delay_timer = 0
    /\ chip8.sound_timer = 1
    /\ chip8.register_file[10] = 2
    /\ chip8.pc > ENTRY + 2 * 42

\* C19: right after the load of an image of length L <= 3584, memory[0..80)
\* is the font table, memory[0x200 + i] = image[i] for i < L, memory[0x1FF]
\* and every other byte is 0; all registers, I and both timers are 0; stack
\* and draw queue are empty; all keys are released; the machine is not
\* waiting for a key; PC = 0x200.
C19_InitialState ==
    LET image == chip8.memory.image
    IN  (fresh /\ Len(image) <= 3584) =>
            /\ \A a \in 0..4095 :
                  MemRead(chip8.memory, a) =
                      (IF a < 80 THEN FONT[a + 1]
                       ELSE IF a >= 512 /\ a - 512 < Len(image) THEN image[a - 512 + 1]
                       ELSE 0)
            /\ MemRead(chip8.memory, 511) = 0
            /\ \A r \in 0..15 : chip8.register_file[r] = 0
            /\ chip8.indirect = 0
            /\ chip8.delay_timer = 0
            /\ chip8.sound_timer = 0
            /\ chip8.stack = <<>>
            /\ chip8.draw_queue = <<>>
            /\ \A k \in 0..15 : chip8.keyboard[k] = "Released"
            /\ ~chip8.awaiting_key
            /\ chip8.pc = 512

\* The core as constructed from the eight bytes 63 CD A3 00 F3 33 12 06.
C19_Witness ==
    /\ fresh
    /\ chip8.memory.image = <<99, 205, 163, 0, 243, 51, 18, 6>>
    /\ MemRead(chip8.memory, 0) = 240
    /\ MemRead(chip8.memory, 512) = 99
    /\ MemRead(chip8.memory, 519) = 6
    /\ MemRead(chip8.memory, 520) = 0

\* C20 as stated: PC is even in every reachable state of the core.
C20_PcAlwaysEven == chip8.pc % 2 = 0

\* A cycle of the core that transfers control to an odd address: jump 1nnn
\* or call 2nnn with nnn odd, or jump-plus-V0 Bnnn with nnn + V0 odd.
OddTransfer ==
    LET d == InstructionDecode(NextWord(chip8.memory, chip8.pc))
    IN  /\ CoreCycleStep
        /\ \/ d.opcode \in {1, 2} /\ d.address % 2 = 1
           \/ d.opcode = 11 /\ (d.address + chip8.register_file[0]) % 2 = 1

\* PC and every return address on the call stack are even.
WordAligned(c) ==
    /\ c.pc % 2 = 0
    /\ \A n \in DOMAIN c.stack : c.stack[n] % 2 = 0

\* C20: PC is word-aligned as long as the program transfers control to even
\* addresses only.  From a state where PC and the stacked return addresses
\* are even (the initial state is one), every instruction cycle that is not
\* a jump, call or jump-plus-V0 to an odd target, every timer tick and every
\* key event leaves them even; the jump instructions set PC to their target
\* whatever its parity.
C20_AlignedUnlessOddTarget ==
    [][ (WordAligned(chip8) /\ ~OddTransfer) => WordAligned(chip8') ]_vars

\* The core has executed B232 with V0 = 0 after a call and a return, and
\* PC is 0x232.
C20_Witness ==
    /\ chip8.ir = \hB232
    /\ chip8.pc = \h232
    /\ chip8.register_file[0] = 0
    /\ WordAligned(chip8)
    /\ ~chip8.panicked

---------------------------------------------------------------------------
(* C21 - C26 *)

IsCall(word) == word \div 4096 = 2

\* The return addresses a machine holds for the calls not yet returned from,
\* oldest first: the core's Vec, and App's big-endian words in emulated
\* memory below sp.
CoreRecorded(c) == c.stack
AppRecorded(a) == [k \in 1..(a.sp \div 2) |-> ReadWord(a.memory, 2 * (k - 1))]

Front(seq) == SubSeq(seq, 1, Len(seq) - 1)

\* C21: call/return is LIFO and absolute, in both interpreters.  A call 2nnn
\* fetched at P sets PC = nnn and records P + 2 on top of the recorded
\* return addresses; a return with a call outstanding sets PC to the newest
\* recorded address and drops it; no other instruction (store-block and BCD
\* to any address included), timer tick or key event changes the recorded
\* addresses.
C21_CallReturnLifo ==
    [][ LET cw == NextWord(chip8.memory, chip8.pc)
            aw == NextWord(app.memory, app.pc)
            cr == CoreRecorded(chip8)
            ar == AppRecorded(app)
        IN  /\ IF CoreCycleStep /\ IsCall(cw)
               THEN /\ chip8'.pc = cw % 4096
                    /\ CoreRecorded(chip8') = Append(cr, chip8.pc + 2)
               ELSE IF CoreCycleStep /\ IsReturn(cw) /\ cr # <<>>
               THEN /\ chip8'.pc = cr[Len(cr)]
                    /\ CoreRecorded(chip8') = Front(cr)
               ELSE CoreRecorded(chip8') = cr
            /\ IF AppInstructionStep /\ IsCall(aw)
               THEN /\ app'.pc = aw % 4096
                    /\ AppRecorded(app') = Append(ar, app.pc + 2)
               ELSE IF AppInstructionStep /\ IsReturn(aw) /\ ar # <<>>
               THEN /\ app'.pc = ar[Len(ar)]
                    /\ AppRecorded(app') = Front(ar)
               ELSE AppRecorded(app') = ar ]_vars

\* App inside the inner subroutine after its store to address 3: of the
\* recorded return addresses 0x202, 0x208 the newer one now reads 0x202.
C21_Witness ==
    /\ app.pc = \h212
    /\ app.sp = 4
    /\ AppRecorded(app) = << \h202, \h202 >>
    /\ ~app.panicked

\* A step of the core that ends its key-wait.
CoreResolveStep == chip8.awaiting_key /\ ~chip8'.awaiting_key

\* C22: when the core's key-wait resolves with key k, the step that
\* resolves it is an instruction cycle (the poll after the release), not a
\* key event, and it writes k to the register x encoded in the Fx0A that
\* began the wait and to no other register.
C22_KeyWrittenToAwaitRegister ==
    [][ CoreResolveStep =>
            /\ CoreCycleStep
            /\ \E k \in 0..15 :
                  chip8'.register_file = [chip8.register_file EXCEPT ![await_x] = k] ]_vars

\* The wait begun by F10A has been resolved with key 3 after the core went
\* on to execute 6207: the key is in V2 and V1 is still 0.
C22_Witness ==
    /\ chip8.memory.image = Bytes(KeyProgram)
    /\ ~chip8.awaiting_key
    /\ key_log # <<>>
    /\ await_x = 1
    /\ chip8.register_file[1] = 0
    /\ chip8.register_file[2] = 3

\* C23: App's key-wait latch moves only along Idle -> Waiting ->
\* Pressed(k) -> Released(k) -> Idle; once it is Waiting, under a host that
\* keeps polling and eventually reports a press and then the release of the
\* pressed key, it eventually is Idle again with PC past the await
\* instruction; and a refresh tick during the stall decrements both timers
\* (towards 0) as it does at any other time.
C23_KeyWaitLiveness ==
    /\ [][ app'.key_wait # app.key_wait =>
              \/ app.key_wait = Idle /\ app'.key_wait = Waiting
              \/ app.key_wait = Waiting /\ app'.key_wait[1] = "Pressed"
              \/ app.key_wait[1] = "Pressed" /\ app'.key_wait = Released(app.key_wait[2])
              \/ app.key_wait[1] = "Released" /\ app'.key_wait = Idle ]_vars
    /\ [][ \A cycle_elapsed \in BOOLEAN :
              ( /\ app.key_wait # Idle
                /\ ~app.panicked
                /\ app' = App_redraw_requested(app, cycle_elapsed, TRUE, 0) ) =>
                    /\ app'.delay_timer = (IF app.delay_timer = 0 THEN 0 ELSE app.delay_timer - 1)
                    /\ app'.sound_timer = (IF app.sound_timer = 0 THEN 0 ELSE app.sound_timer - 1) ]_vars
    /\ (app.key_wait = Waiting) ~> (app.key_wait = Idle /\ app.pc = app_wait.pc + 2)

\* The wait begun by F50A at 0x25C has been resolved with key 5 while the
\* delay timer, 2 when it was set, was ticked down to 0.
C23_Witness ==
    /\ app.memory.image = Bytes(Tour)
    /\ app_wait.pc = \h25C
    /\ app.key_wait = Idle
    /\ app.pc = \h25E
    /\ app.v_file[5] = 5
    /\ app.delay_timer = 0

\* A key event handled by the core.
CoreKeyStep ==
    /\ ~chip8.panicked
    /\ \E key_code \in HostKeyCodes, state \in ElementStates :
          chip8' = Chip8_handle_input(chip8, key_code, state)

\* C24: in every reachable state of the core a latched key k is held only
\* while awaiting_key is true, and k is in 0..15; waiting() becomes true
\* only by an instruction cycle that executes an await-key instruction, is
\* true after every such cycle, and becomes false only by a key event for
\* the latched key.
C24_LatchOnlyWhileWaiting ==
    /\ [](chip8.key_latch # None =>
              /\ chip8.awaiting_key
              /\ chip8.key_latch[1] \in 0..15)
    /\ [][ LET word == NextWord(chip8.memory, chip8.pc)
           IN  /\ (~Chip8_waiting(chip8) /\ Chip8_waiting(chip8')) =>
                      CoreCycleStep /\ IsAwaitKey(word)
               /\ (CoreCycleStep /\ IsAwaitKey(word) /\ ~chip8'.panicked) =>
                      Chip8_waiting(chip8')
               /\ (Chip8_waiting(chip8) /\ ~Chip8_waiting(chip8')) =>
                      /\ CoreKeyStep
                      /\ chip8.key_latch # None
                      /\ chip8'.key_latch = None
                      /\ key_log' # key_log
                      /\ key_log'[Len(key_log')][1] = chip8.key_latch[1] ]_vars

\* The core waits on F10A with key 3 latched by its first event.
C24_Witness ==
    /\ chip8.memory.image = Bytes(KeyProgram)
    /\ chip8.awaiting_key
    /\ chip8.key_latch = Some(3)
    /\ Len(key_log) = 1

\* The number of bytes from I on that the instruction reads or writes.
OperandLength(word) ==
    LET d == InstructionDecode(word)
    IN  IF d.opcode = 13 THEN d.funct
        ELSE IF d.opcode = 15 /\ d.immediate = 51 THEN 3
        ELSE IF d.opcode = 15 /\ d.immediate \in {85, 101} THEN d.x + 1
        ELSE 0

\* C25: a core cycle whose fetch range [PC, PC+2) extends past byte 4095
\* aborts with nothing changed; one whose operand range from I (n bytes for
\* draw, 3 for BCD, x+1 for store/load block) extends past byte 4095 aborts
\* with memory, V0..VF, I, timers, stack and draw queue as they were, PC
\* alone having been advanced by the fetch; and such an instruction whose
\* range lies within memory does not abort.
C25_OutOfRangeAbortsUntouched ==
    [][ CoreCycleStep =>
          LET word == NextWord(chip8.memory, chip8.pc)
              len  == OperandLength(word)
              same == /\ chip8'.memory = chip8.memory
                      /\ chip8'.register_file = chip8.register_file
                      /\ chip8'.indirect = chip8.indirect
                      /\ chip8'.delay_timer = chip8.delay_timer
                      /\ chip8'.sound_timer = chip8.sound_timer
                      /\ chip8'.stack = chip8.stack
                      /\ chip8'.draw_queue = chip8.draw_queue
          IN  IF chip8.pc + 2 > MEMORY_LENGTH
              THEN chip8'.panicked /\ same /\ chip8'.pc = chip8.pc
              ELSE IF len > 0 /\ chip8.indirect + len > MEMORY_LENGTH
              THEN chip8'.panicked /\ same /\ chip8'.pc = chip8.pc + 2
              ELSE len > 0 => ~chip8'.panicked ]_vars

\* BCD of V0 = 205 with I = 0xFFE has aborted: 0xFFE and 0xFFF still hold 0.
C25_Witness ==
    /\ chip8.memory.image = Bytes(EdgeProgram(\hFFE, \hF033))
    /\ chip8.panicked
    /\ chip8.ir = \hF033
    /\ chip8.indirect = \hFFE
    /\ MemRead(chip8.memory, \hFFE) = 0
    /\ MemRead(chip8.memory, \hFFF) = 0

\* The state the two interpreters share.
Agree(c, a) ==
    /\ c.memory = a.memory
    /\ c.register_file = a.v_file
    /\ c.pc = a.pc
    /\ c.indirect = a.i
    /\ c.delay_timer = a.delay_timer
    /\ c.sound_timer = a.sound_timer
    /\ c.keyboard = a.keypad

\* Call, return, clear, draw, await-key and random.
Excluded(word) ==
    \/ IsCall(word)
    \/ IsReturn(word)
    \/ word = \h00E0
    \/ IsDrawSprite(word)
    \/ IsAwaitKey(word)
    \/ word \div 4096 = 12

\* C26: whenever the core and App agree on memory, V0..VF, PC, I, both
\* timers and the keypad, and the instruction word at PC is not a call,
\* return, clear, draw, await-key or random, one instruction cycle of each
\* aborts in both or in neither and leaves them in agreement.
C26_InterpretersAgree ==
    ( /\ ~chip8.panicked
      /\ ~app.panicked
      /\ Agree(chip8, app)
      /\ ~Excluded(NextWord(chip8.memory, chip8.pc)) ) =>
        LET c == Chip8_instruction_cycle(chip8, 0)
            a == App_instruction_cycle(app, 0)
        IN  /\ c.panicked = a.panicked
            /\ Agree(c, a)

\* Both interpreters have run the straight-line program to its end and
\* agree: V0 = 10, V1 = 5, V2 = 10, I = 25.
C26_Witness ==
    /\ chip8.memory.image = Bytes(StraightProgram)
    /\ Agree(chip8, app)
    /\ chip8.pc = \h228
    /\ chip8.register_file[0] = 10
    /\ chip8.register_file[1] = 5
    /\ chip8.register_file[2] = 10
    /\ chip8.indirect = 25
    /\ chip8.sound_timer = 10

====
